---- MODULE Spec2Model ----
(***************************************************************************)
(* The model registry of the text-to-speech demo (src/model.py) and the    *)
(* request handler that uses it (src/app.py).                              *)
(*                                                                         *)
(* Identifiers are strings; a speed is held in tenths (10 is the speed     *)
(* 1.0, the step of the slider of app.py:158-164), so that 1.0 / speed is  *)
(* the exact fraction 10 / speed.  An engine (sherpa_onnx.OfflineTts) is   *)
(* opaque: it is the index of its configuration in `engines', which gives  *)
(* every instantiation its own identity.                                   *)
(***************************************************************************)
EXTENDS Integers, Sequences, FiniteSets, TLC

(***************************************************************************)
(* Python's str, int and dict operations that the source uses.             *)
(***************************************************************************)

RECURSIVE str_find(_, _, _)
\* s.find(sub) searched from position i (1-based); 0 when sub does not occur
str_find(s, sub, i) ==
    IF i + Len(sub) - 1 > Len(s) THEN 0
    ELSE IF SubSeq(s, i, i + Len(sub) - 1) = sub THEN i
    ELSE str_find(s, sub, i + 1)

\* sub in s
str_in(sub, s) == str_find(s, sub, 1) # 0

RECURSIVE str_split(_, _)
\* s.split(sep)
str_split(s, sep) ==
    LET i == str_find(s, sep, 1)
    IN  IF i = 0 THEN <<s>>
        ELSE <<SubSeq(s, 1, i - 1)>> \o str_split(SubSeq(s, i + Len(sep), Len(s)), sep)

\* s[n:]
str_from(s, n) == SubSeq(s, n + 1, Len(s))

RECURSIVE str_join(_, _)
\* sep.join(parts)
str_join(sep, parts) ==
    IF Len(parts) = 0 THEN ""
    ELSE IF Len(parts) = 1 THEN parts[1]
    ELSE parts[1] \o sep \o str_join(sep, Tail(parts))

\* seq[-1]
last(seq) == seq[Len(seq)]

Digits == <<"0", "1", "2", "3", "4", "5", "6", "7", "8", "9">>

IsDigit(c) == \E d \in DOMAIN Digits : Digits[d] = c

DigitValue(c) == (CHOOSE d \in DOMAIN Digits : Digits[d] = c) - 1

RECURSIVE str_strip(_)
\* s.strip() for the blank character
str_strip(s) ==
    IF Len(s) > 0 /\ SubSeq(s, 1, 1) = " " THEN str_strip(str_from(s, 1))
    ELSE IF Len(s) > 0 /\ SubSeq(s, Len(s), Len(s)) = " " THEN str_strip(SubSeq(s, 1, Len(s) - 1))
    ELSE s

RECURSIVE digits_value(_, _)
\* the value of a string of decimal digits, most significant first
digits_value(s, acc) ==
    IF Len(s) = 0 THEN acc
    ELSE digits_value(str_from(s, 1), 10 * acc + DigitValue(SubSeq(s, 1, 1)))

\* int(s): [ok |-> FALSE] stands for the ValueError of a string that is no
\* (optionally signed) decimal integer
int(s) ==
    LET t == str_strip(s)
        signed == Len(t) > 0 /\ SubSeq(t, 1, 1) \in {"+", "-"}
        body == IF signed THEN str_from(t, 1) ELSE t
        good == Len(body) > 0 /\ \A i \in 1..Len(body) : IsDigit(SubSeq(body, i, i))
    IN  IF ~good THEN [ok |-> FALSE, value |-> 0]
        ELSE [ok |-> TRUE,
              value |-> IF signed /\ SubSeq(t, 1, 1) = "-"
                        THEN 0 - digits_value(body, 0)
                        ELSE digits_value(body, 0)]

\* k in d, for a dict held as the sequence of its (key, value) items in
\* insertion order
dict_has(d, k) == \E i \in DOMAIN d : d[i][1] = k

\* d[k]
dict_get(d, k) == d[CHOOSE i \in DOMAIN d : d[i][1] = k][2]

\* list(d.keys())
dict_keys(d) == [i \in DOMAIN d |-> d[i][1]]

\* d[k] = v: a key already present keeps its place and takes the new value
dict_set(d, k, v) ==
    IF dict_has(d, k)
    THEN [i \in DOMAIN d |-> IF d[i][1] = k THEN <<k, v>> ELSE d[i]]
    ELSE Append(d, <<k, v>>)

RECURSIVE dict_fill(_, _)
dict_fill(d, items) ==
    IF Len(items) = 0 THEN d
    ELSE dict_fill(dict_set(d, Head(items)[1], Head(items)[2]), Tail(items))

\* a dict display { k1: v1, k2: v2, ... }: dict_fill(<<>>, items), written
\* without recursion: a key stands where it is first given and has the
\* value it is given last
dict(items) ==
    LET first(i) == \A j \in 1..(i - 1) : items[j][1] # items[i][1]
        final(k) == CHOOSE j \in DOMAIN items :
                        /\ items[j][1] = k
                        /\ \A h \in (j + 1)..Len(items) : items[h][1] # k
        places == SelectSeq([i \in DOMAIN items |-> i], first)
    IN  [n \in DOMAIN places |-> <<items[places[n]][1], items[final(items[places[n]][1])][2]>>]

(***************************************************************************)
(* The per-language model tables: identifier -> builder function.          *)
(***************************************************************************)

\* a table of Cantonese that also holds an identifier of chinese_models
cantonese_models_shared ==
    dict(<<
        <<"csukuangfj/vits-cantonese-hf-xiaomaiiwn", "_get_vits_hf">>,
        <<"csukuangfj/vits-zh-aishell3", "_get_vits_zh_aishell3">>
    >>)

\* src/model.py:416-418
cantonese_models ==
    dict(<<
        <<"csukuangfj/vits-cantonese-hf-xiaomaiiwn", "_get_vits_hf">>
    >>)

\* src/model.py:420-437
chinese_models ==
    dict(<<
        <<"csukuangfj/vits-zh-hf-keqing|804", "_get_vits_hf">>,
        <<"csukuangfj/vits-zh-hf-theresa|804", "_get_vits_hf">>,
        <<"csukuangfj/vits-zh-hf-eula|804", "_get_vits_hf">>,
        <<"csukuangfj/vits-zh-hf-echo|804", "_get_vits_hf">>,
        <<"csukuangfj/vits-zh-hf-bronya|804", "_get_vits_hf">>,
        <<"csukuangfj/vits-zh-hf-doom|804", "_get_vits_hf">>,
        <<"csukuangfj/vits-zh-hf-zenyatta|804", "_get_vits_hf">>,
        <<"csukuangfj/vits-zh-hf-abyssinvoker|804", "_get_vits_hf">>,
        <<"csukuangfj/vits-zh-hf-fanchen-wnj|1", "_get_vits_hf">>,
        <<"csukuangfj/vits-zh-hf-fanchen-C|187", "_get_vits_hf">>,
        <<"csukuangfj/vits-zh-hf-fanchen-ZhiHuiLaoZhe|1", "_get_vits_hf">>,
        <<"csukuangfj/vits-zh-hf-fanchen-ZhiHuiLaoZhe_new|1", "_get_vits_hf">>,
        <<"csukuangfj/vits-zh-hf-fanchen-unity|1", "_get_vits_hf">>,
        <<"csukuangfj/vits-zh-aishell3", "_get_vits_zh_aishell3">>,
        <<"csukuangfj/vits-piper-zh_CN-huayan-medium", "_get_vits_piper">>
    >>)

\* src/model.py:439-480
english_models ==
    dict(<<
        <<"csukuangfj/vits-piper-en_US-glados", "_get_vits_piper">>,
        <<"csukuangfj/vits-coqui-en-ljspeech", "_get_vits_piper">>,
        <<"csukuangfj/vits-coqui-en-ljspeech-neon", "_get_vits_piper">>,
        <<"csukuangfj/vits-coqui-en-vctk", "_get_vits_piper">>,
        <<"csukuangfj/vits-piper-en_GB-sweetbbak-amy", "_get_vits_piper">>,
        <<"csukuangfj/vits-piper-en_US-amy-low", "_get_vits_piper">>,
        <<"csukuangfj/vits-piper-en_US-amy-medium", "_get_vits_piper">>,
        <<"csukuangfj/vits-piper-en_US-arctic-medium", "_get_vits_piper">>,
        <<"csukuangfj/vits-piper-en_US-danny-low", "_get_vits_piper">>,
        <<"csukuangfj/vits-piper-en_US-hfc_male-medium", "_get_vits_piper">>,
        <<"csukuangfj/vits-piper-en_US-joe-medium", "_get_vits_piper">>,
        <<"csukuangfj/vits-piper-en_US-kathleen-low", "_get_vits_piper">>,
        <<"csukuangfj/vits-piper-en_US-kusal-medium", "_get_vits_piper">>,
        <<"csukuangfj/vits-piper-en_US-l2arctic-medium", "_get_vits_piper">>,
        <<"csukuangfj/vits-piper-en_US-lessac-high", "_get_vits_piper">>,
        <<"csukuangfj/vits-piper-en_US-lessac-low", "_get_vits_piper">>,
        <<"csukuangfj/vits-piper-en_US-lessac-medium", "_get_vits_piper">>,
        <<"csukuangfj/vits-piper-en_US-libritts-high", "_get_vits_piper">>,
        <<"csukuangfj/vits-piper-en_US-libritts_r-medium", "_get_vits_piper">>,
        <<"csukuangfj/vits-piper-en_US-ljspeech-high", "_get_vits_piper">>,
        <<"csukuangfj/vits-piper-en_US-ljspeech-medium", "_get_vits_piper">>,
        <<"csukuangfj/vits-piper-en_US-ryan-high", "_get_vits_piper">>,
        <<"csukuangfj/vits-piper-en_US-ryan-low", "_get_vits_piper">>,
        <<"csukuangfj/vits-piper-en_US-ryan-medium", "_get_vits_piper">>,
        <<"csukuangfj/vits-piper-en_GB-alan-low", "_get_vits_piper">>,
        <<"csukuangfj/vits-piper-en_GB-alan-medium", "_get_vits_piper">>,
        <<"csukuangfj/vits-piper-en_GB-alan-medium", "_get_vits_piper">>,
        <<"csukuangfj/vits-piper-en_GB-cori-high", "_get_vits_piper">>,
        <<"csukuangfj/vits-piper-en_GB-cori-medium", "_get_vits_piper">>,
        <<"csukuangfj/vits-piper-en_GB-jenny_dioco-medium", "_get_vits_piper">>,
        <<"csukuangfj/vits-piper-en_GB-northern_english_male-medium", "_get_vits_piper">>,
        <<"csukuangfj/vits-piper-en_GB-semaine-medium", "_get_vits_piper">>,
        <<"csukuangfj/vits-piper-en_GB-southern_english_female-low", "_get_vits_piper">>,
        <<"csukuangfj/vits-piper-en_GB-vctk-medium", "_get_vits_piper">>,
        <<"csukuangfj/vits-vctk", "_get_vits_vctk">>,
        <<"csukuangfj/vits-ljs", "_get_vits_ljs">>
    >>)

\* src/model.py:482-494
german_models ==
    dict(<<
        <<"csukuangfj/vits-coqui-de-css10", "_get_vits_piper">>,
        <<"csukuangfj/vits-piper-de_DE-eva_k-x_low", "_get_vits_piper">>,
        <<"csukuangfj/vits-piper-de_DE-karlsson-low", "_get_vits_piper">>,
        <<"csukuangfj/vits-piper-de_DE-kerstin-low", "_get_vits_piper">>,
        <<"csukuangfj/vits-piper-de_DE-mls-medium", "_get_vits_piper">>,
        <<"csukuangfj/vits-piper-de_DE-pavoque-low", "_get_vits_piper">>,
        <<"csukuangfj/vits-piper-de_DE-ramona-low", "_get_vits_piper">>,
        <<"csukuangfj/vits-piper-de_DE-thorsten-low", "_get_vits_piper">>,
        <<"csukuangfj/vits-piper-de_DE-thorsten-medium", "_get_vits_piper">>,
        <<"csukuangfj/vits-piper-de_DE-thorsten-high", "_get_vits_piper">>,
        <<"csukuangfj/vits-piper-de_DE-thorsten_emotional-medium", "_get_vits_piper">>
    >>)

\* src/model.py:496-507
spanish_models ==
    dict(<<
        <<"csukuangfj/vits-piper-es-glados-medium", "_get_vits_piper">>,
        <<"csukuangfj/vits-piper-es_ES-carlfm-x_low", "_get_vits_piper">>,
        <<"csukuangfj/vits-piper-es_ES-davefx-medium", "_get_vits_piper">>,
        <<"csukuangfj/vits-piper-es_ES-sharvard-medium", "_get_vits_piper">>,
        <<"csukuangfj/vits-piper-es_MX-ald-medium", "_get_vits_piper">>,
        <<"csukuangfj/vits-piper-es_MX-claude-high", "_get_vits_piper">>,
        <<"csukuangfj/vits-mimic3-es_ES-m-ailabs_low", "_get_vits_piper">>
    >>)

\* src/model.py:509-520
french_models ==
    dict(<<
        <<"csukuangfj/vits-coqui-fr-css10", "_get_vits_piper">>,
        <<"csukuangfj/vits-piper-fr_FR-mls-medium", "_get_vits_piper">>,
        <<"csukuangfj/vits-piper-fr_FR-upmc-medium", "_get_vits_piper">>,
        <<"csukuangfj/vits-piper-fr_FR-siwis-low", "_get_vits_piper">>,
        <<"csukuangfj/vits-piper-fr_FR-siwis-medium", "_get_vits_piper">>,
        <<"csukuangfj/vits-piper-fr_FR-tjiho-model1", "_get_vits_piper">>,
        <<"csukuangfj/vits-piper-fr_FR-tjiho-model2", "_get_vits_piper">>,
        <<"csukuangfj/vits-piper-fr_FR-tjiho-model3", "_get_vits_piper">>
    >>)

\* src/model.py:522-526
ukrainian_models ==
    dict(<<
        <<"csukuangfj/vits-piper-uk_UA-lada-x_low", "_get_vits_piper">>,
        <<"csukuangfj/vits-coqui-uk-mai", "_get_vits_piper">>
    >>)

\* src/model.py:528-533
russian_models ==
    dict(<<
        <<"csukuangfj/vits-piper-ru_RU-denis-medium", "_get_vits_piper">>,
        <<"csukuangfj/vits-piper-ru_RU-dmitri-medium", "_get_vits_piper">>,
        <<"csukuangfj/vits-piper-ru_RU-irina-medium", "_get_vits_piper">>,
        <<"csukuangfj/vits-piper-ru_RU-ruslan-medium", "_get_vits_piper">>
    >>)

\* src/model.py:535-538
arabic_models ==
    dict(<<
        <<"csukuangfj/vits-piper-ar_JO-kareem-low", "_get_vits_piper">>,
        <<"csukuangfj/vits-piper-ar_JO-kareem-medium", "_get_vits_piper">>
    >>)

\* src/model.py:540-544
catalan_models ==
    dict(<<
        <<"csukuangfj/vits-piper-ca_ES-upc_ona-x_low", "_get_vits_piper">>,
        <<"csukuangfj/vits-piper-ca_ES-upc_ona-medium", "_get_vits_piper">>,
        <<"csukuangfj/vits-piper-ca_ES-upc_pau-x_low", "_get_vits_piper">>
    >>)

\* src/model.py:546-550
czech_models ==
    dict(<<
        <<"csukuangfj/vits-piper-cs_CZ-jirka-low", "_get_vits_piper">>,
        <<"csukuangfj/vits-piper-cs_CZ-jirka-medium", "_get_vits_piper">>,
        <<"csukuangfj/vits-coqui-cs-cv", "_get_vits_piper">>
    >>)

\* src/model.py:552-555
danish_models ==
    dict(<<
        <<"csukuangfj/vits-coqui-da-cv", "_get_vits_piper">>,
        <<"csukuangfj/vits-piper-da_DK-talesyntese-medium", "_get_vits_piper">>
    >>)

\* src/model.py:557-560
greek_models ==
    dict(<<
        <<"csukuangfj/vits-piper-el_GR-rapunzelina-low", "_get_vits_piper">>
    >>)

\* src/model.py:562-567
finnish_models ==
    dict(<<
        <<"csukuangfj/vits-coqui-fi-css10", "_get_vits_piper">>,
        <<"csukuangfj/vits-piper-fi_FI-harri-low", "_get_vits_piper">>,
        <<"csukuangfj/vits-piper-fi_FI-harri-medium", "_get_vits_piper">>,
        <<"csukuangfj/vits-mimic3-fi_FI-harri-tapani-ylilammi_low", "_get_vits_piper">>
    >>)

\* src/model.py:569-575
hungarian_models ==
    dict(<<
        <<"csukuangfj/vits-piper-hu_HU-anna-medium", "_get_vits_piper">>,
        <<"csukuangfj/vits-piper-hu_HU-berta-medium", "_get_vits_piper">>,
        <<"csukuangfj/vits-piper-hu_HU-imre-medium", "_get_vits_piper">>,
        <<"csukuangfj/vits-mimic3-hu_HU-diana-majlinger_low", "_get_vits_piper">>
    >>)

\* src/model.py:577-582
icelandic_models ==
    dict(<<
        <<"csukuangfj/vits-piper-is_IS-bui-medium", "_get_vits_piper">>,
        <<"csukuangfj/vits-piper-is_IS-salka-medium", "_get_vits_piper">>,
        <<"csukuangfj/vits-piper-is_IS-steinn-medium", "_get_vits_piper">>,
        <<"csukuangfj/vits-piper-is_IS-ugla-medium", "_get_vits_piper">>
    >>)

\* src/model.py:584-586
italian_models ==
    dict(<<
        <<"csukuangfj/vits-piper-it_IT-riccardo-x_low", "_get_vits_piper">>
    >>)

\* src/model.py:588-590
georgian_models ==
    dict(<<
        <<"csukuangfj/vits-piper-ka_GE-natia-medium", "_get_vits_piper">>
    >>)

\* src/model.py:592-596
kazakh_models ==
    dict(<<
        <<"csukuangfj/vits-piper-kk_KZ-iseke-x_low", "_get_vits_piper">>,
        <<"csukuangfj/vits-piper-kk_KZ-issai-high", "_get_vits_piper">>,
        <<"csukuangfj/vits-piper-kk_KZ-raya-x_low", "_get_vits_piper">>
    >>)

\* src/model.py:598-600
luxembourgish_models ==
    dict(<<
        <<"csukuangfj/vits-piper-lb_LU-marylux-medium", "_get_vits_piper">>
    >>)

\* src/model.py:602-606
nepali_models ==
    dict(<<
        <<"csukuangfj/vits-piper-ne_NP-google-medium", "_get_vits_piper">>,
        <<"csukuangfj/vits-piper-ne_NP-google-x_low", "_get_vits_piper">>,
        <<"csukuangfj/vits-mimic3-ne_NP-ne-google_low", "_get_vits_piper">>
    >>)

\* src/model.py:608-617
dutch_models ==
    dict(<<
        <<"csukuangfj/vits-coqui-nl-css10", "_get_vits_piper">>,
        <<"csukuangfj/vits-piper-nl_BE-nathalie-medium", "_get_vits_piper">>,
        <<"csukuangfj/vits-piper-nl_BE-nathalie-x_low", "_get_vits_piper">>,
        <<"csukuangfj/vits-piper-nl_BE-rdh-medium", "_get_vits_piper">>,
        <<"csukuangfj/vits-piper-nl_BE-rdh-x_low", "_get_vits_piper">>,
        <<"csukuangfj/vits-piper-nl_NL-mls-medium", "_get_vits_piper">>,
        <<"csukuangfj/vits-piper-nl_NL-mls_5809-low", "_get_vits_piper">>,
        <<"csukuangfj/vits-piper-nl_NL-mls_7432-low", "_get_vits_piper">>
    >>)

\* src/model.py:619-621
norwegian_models ==
    dict(<<
        <<"csukuangfj/vits-piper-no_NO-talesyntese-medium", "_get_vits_piper">>
    >>)

\* src/model.py:623-630
polish_models ==
    dict(<<
        <<"csukuangfj/vits-coqui-pl-mai_female", "_get_vits_piper">>,
        <<"csukuangfj/vits-piper-pl_PL-darkman-medium", "_get_vits_piper">>,
        <<"csukuangfj/vits-piper-pl_PL-gosia-medium", "_get_vits_piper">>,
        <<"csukuangfj/vits-piper-pl_PL-mc_speech-medium", "_get_vits_piper">>,
        <<"csukuangfj/vits-mimic3-pl_PL-m-ailabs_low", "_get_vits_piper">>
    >>)

\* src/model.py:632-637
portuguese_models ==
    dict(<<
        <<"csukuangfj/vits-coqui-pt-cv", "_get_vits_piper">>,
        <<"csukuangfj/vits-piper-pt_BR-edresson-low", "_get_vits_piper">>,
        <<"csukuangfj/vits-piper-pt_BR-faber-medium", "_get_vits_piper">>,
        <<"csukuangfj/vits-piper-pt_PT-tugao-medium", "_get_vits_piper">>
    >>)

\* src/model.py:639-642
romanian_models ==
    dict(<<
        <<"csukuangfj/vits-coqui-ro-cv", "_get_vits_piper">>,
        <<"csukuangfj/vits-piper-ro_RO-mihai-medium", "_get_vits_piper">>
    >>)

\* src/model.py:645-648
slovak_models ==
    dict(<<
        <<"csukuangfj/vits-coqui-sk-cv", "_get_vits_piper">>,
        <<"csukuangfj/vits-piper-sk_SK-lili-medium", "_get_vits_piper">>
    >>)

\* src/model.py:650-652
serbian_models ==
    dict(<<
        <<"csukuangfj/vits-piper-sr_RS-serbski_institut-medium", "_get_vits_piper">>
    >>)

\* src/model.py:654-657
swedish_models ==
    dict(<<
        <<"csukuangfj/vits-coqui-sv-cv", "_get_vits_piper">>,
        <<"csukuangfj/vits-piper-sv_SE-nst-medium", "_get_vits_piper">>
    >>)

\* src/model.py:659-661
swahili_models ==
    dict(<<
        <<"csukuangfj/vits-piper-sw_CD-lanfrica-medium", "_get_vits_piper">>
    >>)

\* src/model.py:663-666
turkish_models ==
    dict(<<
        <<"csukuangfj/vits-piper-tr_TR-dfki-medium", "_get_vits_piper">>,
        <<"csukuangfj/vits-piper-tr_TR-fahrettin-medium", "_get_vits_piper">>
    >>)

\* src/model.py:668-673
vietnamese_models ==
    dict(<<
        <<"csukuangfj/vits-piper-vi_VN-25hours_single-low", "_get_vits_piper">>,
        <<"csukuangfj/vits-piper-vi_VN-vais1000-medium", "_get_vits_piper">>,
        <<"csukuangfj/vits-piper-vi_VN-vivos-x_low", "_get_vits_piper">>,
        <<"csukuangfj/vits-mimic3-vi_VN-vais1000_low", "_get_vits_piper">>
    >>)

\* src/model.py:675-677
bulgarian_models ==
    dict(<<
        <<"csukuangfj/vits-coqui-bg-cv", "_get_vits_piper">>
    >>)

\* src/model.py:679-681
estonian_models ==
    dict(<<
        <<"csukuangfj/vits-coqui-et-cv", "_get_vits_piper">>
    >>)

\* src/model.py:683-685
irish_models ==
    dict(<<
        <<"csukuangfj/vits-coqui-ga-cv", "_get_vits_piper">>
    >>)

\* src/model.py:687-689
croatian_models ==
    dict(<<
        <<"csukuangfj/vits-coqui-hr-cv", "_get_vits_piper">>
    >>)

\* src/model.py:691-693
lithuanian_models ==
    dict(<<
        <<"csukuangfj/vits-coqui-lt-cv", "_get_vits_piper">>
    >>)

\* src/model.py:695-697
latvian_models ==
    dict(<<
        <<"csukuangfj/vits-coqui-lv-cv", "_get_vits_piper">>
    >>)

\* src/model.py:699-701
maltese_models ==
    dict(<<
        <<"csukuangfj/vits-coqui-mt-cv", "_get_vits_piper">>
    >>)

\* src/model.py:703-706
slovenian_models ==
    dict(<<
        <<"csukuangfj/vits-piper-sl_SI-artur-medium", "_get_vits_piper">>,
        <<"csukuangfj/vits-coqui-sl-cv", "_get_vits_piper">>
    >>)

\* src/model.py:709-712
bengali_models ==
    dict(<<
        <<"csukuangfj/vits-coqui-bn-custom_female", "_get_vits_piper">>,
        <<"csukuangfj/vits-mimic3-bn-multi_low", "_get_vits_piper">>
    >>)

\* the table with the builder that _get_vits_mms delegates to
min_nan_models_piper ==
    dict(<<
        <<"csukuangfj/vits-mms-nan", "_get_vits_piper">>
    >>)

\* src/model.py:714-716
min_nan_models ==
    dict(<<
        <<"csukuangfj/vits-mms-nan", "_get_vits_mms">>
    >>)

\* the table with its one entry commented out
thai_models_empty == dict(<<>>)

\* src/model.py:718-720
thai_models ==
    dict(<<
        <<"csukuangfj/vits-mms-tha", "_get_vits_mms">>
    >>)

\* src/model.py:722-726
persian_models ==
    dict(<<
        <<"csukuangfj/vits-piper-fa_IR-amir-medium", "_get_vits_piper">>,
        <<"csukuangfj/vits-piper-fa_IR-gyro-medium", "_get_vits_piper">>,
        <<"csukuangfj/vits-mimic3-fa-haaniye_low", "_get_vits_piper">>
    >>)

\* src/model.py:728-730
korean_models ==
    dict(<<
        <<"csukuangfj/vits-mimic3-ko_KO-kss_low", "_get_vits_piper">>
    >>)

\* src/model.py:733-735
afrikaans_models ==
    dict(<<
        <<"csukuangfj/vits-mimic3-af_ZA-google-nwu_low", "_get_vits_piper">>
    >>)

\* src/model.py:737-739
gujarati_models ==
    dict(<<
        <<"csukuangfj/vits-mimic3-gu_IN-cmu-indic_low", "_get_vits_piper">>
    >>)

\* src/model.py:741-743
tswana_models ==
    dict(<<
        <<"csukuangfj/vits-mimic3-tn_ZA-google-nwu_low", "_get_vits_piper">>
    >>)
(***************************************************************************)
(* get_file and the configuration records of sherpa_onnx.                  *)
(***************************************************************************)

\* The local path hf_hub_download returns for a file of a repository.
get_file(repo_id, filename, subfolder) ==
    "hub/" \o repo_id \o "/" \o (IF subfolder = "." THEN "" ELSE subfolder \o "/") \o filename

RECURSIVE gcd(_, _)
gcd(a, b) == IF b = 0 THEN a ELSE gcd(b, a % b)

\* 1.0 / speed for a speed held in tenths: the fraction <<numerator, denominator>>
\* in lowest terms.  Evaluated only for speed # 0 (ZeroDivisionError otherwise).
length_scale(speed) ==
    LET a == IF speed < 0 THEN 0 - speed ELSE speed
        g == gcd(10, a)
    IN  <<(IF speed < 0 THEN 0 - 1 ELSE 1) * (10 \div g), a \div g>>

\* sherpa_onnx.OfflineTtsVitsModelConfig; a field the caller leaves out keeps
\* its default, the empty string
OfflineTtsVitsModelConfig(model, lexicon, tokens, data_dir, dict_dir, scale) ==
    [model |-> model, lexicon |-> lexicon, tokens |-> tokens,
     data_dir |-> data_dir, dict_dir |-> dict_dir, length_scale |-> scale]

\* sherpa_onnx.OfflineTtsConfig over sherpa_onnx.OfflineTtsModelConfig
OfflineTtsConfig(vits, provider, debug, num_threads, rule_fsts, rule_fars) ==
    [model |-> [vits |-> vits, provider |-> provider, debug |-> debug,
                num_threads |-> num_threads],
     rule_fsts |-> rule_fsts, rule_fars |-> rule_fars]

(***************************************************************************)
(* The builders.  For each: the check it makes before its first get_file   *)
(* ("ok" or the exception it raises), the get_file calls it makes in       *)
(* order, each <<repo_id, filename>>, and the configuration it assembles   *)
(* from the paths `got' that those calls returned.                         *)
(***************************************************************************)

get_vits_vctk_check(repo_id) ==
    IF repo_id = "csukuangfj/vits-vctk" THEN "ok" ELSE "AssertionError"

get_vits_vctk_files(repo_id) ==
    <<<<repo_id, "vits-vctk.onnx">>, <<repo_id, "lexicon.txt">>, <<repo_id, "tokens.txt">>>>

\* the configuration without the lexicon that was fetched
get_vits_vctk_config_plain(repo_id, got, speed) ==
    OfflineTtsConfig(
        OfflineTtsVitsModelConfig(got[1], "", got[3], "", "", length_scale(speed)),
        "cpu", TRUE, 2, "", "")

get_vits_vctk_config(repo_id, got, speed) ==
    OfflineTtsConfig(
        OfflineTtsVitsModelConfig(got[1], got[2], got[3], "", "", length_scale(speed)),
        "cpu", TRUE, 2, "", "")

get_vits_ljs_check(repo_id) ==
    IF repo_id = "csukuangfj/vits-ljs" THEN "ok" ELSE "AssertionError"

get_vits_ljs_files(repo_id) ==
    <<<<repo_id, "vits-ljs.onnx">>, <<repo_id, "lexicon.txt">>, <<repo_id, "tokens.txt">>>>

get_vits_ljs_config(repo_id, got, speed) ==
    OfflineTtsConfig(
        OfflineTtsVitsModelConfig(got[1], got[2], got[3], "", "", length_scale(speed)),
        "cpu", TRUE, 2, "", "")

\* the name of the model file with the test for "piper" made first
get_vits_piper_name_piper_first(repo_id) ==
    IF str_in("piper", repo_id)
    THEN IF Len(str_split(repo_id, "/")) < 2 THEN [ok |-> FALSE, name |-> "IndexError"]
         ELSE [ok |-> TRUE, name |-> str_from(str_split(repo_id, "/")[2], Len("vits-piper-"))]
    ELSE IF str_in("coqui", repo_id) \/ str_in("vits-mms", repo_id)
    THEN [ok |-> TRUE, name |-> "model"]
    ELSE IF str_in("mimic3", repo_id)
    THEN IF Len(str_split(repo_id, "/")) < 2 THEN [ok |-> FALSE, name |-> "IndexError"]
         ELSE [ok |-> TRUE, name |-> str_from(str_split(repo_id, "/")[2], Len("vits-mimic3-"))]
    ELSE [ok |-> FALSE, name |-> "ValueError"]

\* the name of the model file, or the exception of an identifier of no family
get_vits_piper_name(repo_id) ==
    IF str_in("coqui", repo_id) \/ str_in("vits-mms", repo_id)
    THEN [ok |-> TRUE, name |-> "model"]
    ELSE IF str_in("piper", repo_id)
    THEN IF Len(str_split(repo_id, "/")) < 2 THEN [ok |-> FALSE, name |-> "IndexError"]
         ELSE [ok |-> TRUE, name |-> str_from(str_split(repo_id, "/")[2], Len("vits-piper-"))]
    ELSE IF str_in("mimic3", repo_id)
    THEN IF Len(str_split(repo_id, "/")) < 2 THEN [ok |-> FALSE, name |-> "IndexError"]
         ELSE [ok |-> TRUE, name |-> str_from(str_split(repo_id, "/")[2], Len("vits-mimic3-"))]
    ELSE [ok |-> FALSE, name |-> "ValueError"]

\* the data directory without the exception for "vits-mms"
get_vits_piper_data_dir_espeak(repo_id) ==
    IF str_in("vits-coqui-uk-mai", repo_id)
    THEN ""
    ELSE "/tmp/espeak-ng-data"

\* src/model.py:119, 132-133
get_vits_piper_data_dir(repo_id) ==
    IF str_in("vits-coqui-uk-mai", repo_id) \/ str_in("vits-mms", repo_id)
    THEN ""
    ELSE "/tmp/espeak-ng-data"

get_vits_piper_check(repo_id) ==
    IF get_vits_piper_name(repo_id).ok THEN "ok" ELSE get_vits_piper_name(repo_id).name

\* the get_file calls of a builder that also fetches a lexicon
get_vits_piper_files_lexicon(repo_id) ==
    <<<<repo_id, get_vits_piper_name(repo_id).name \o ".onnx">>, <<repo_id, "lexicon.txt">>,
      <<repo_id, "tokens.txt">>>>

get_vits_piper_files(repo_id) ==
    <<<<repo_id, get_vits_piper_name(repo_id).name \o ".onnx">>, <<repo_id, "tokens.txt">>>>

get_vits_piper_config(repo_id, got, speed) ==
    OfflineTtsConfig(
        OfflineTtsVitsModelConfig(got[1], "", got[2], get_vits_piper_data_dir(repo_id), "",
                                  length_scale(speed)),
        "cpu", TRUE, 2, "", "")

get_vits_zh_aishell3_check(repo_id) ==
    IF repo_id = "csukuangfj/vits-zh-aishell3" THEN "ok" ELSE "AssertionError"

get_vits_zh_aishell3_files(repo_id) ==
    <<<<repo_id, "vits-aishell3.onnx">>, <<repo_id, "lexicon.txt">>, <<repo_id, "tokens.txt">>,
      <<repo_id, "phone.fst">>, <<repo_id, "date.fst">>, <<repo_id, "number.fst">>,
      <<repo_id, "new_heteronym.fst">>, <<repo_id, "rule.far">>>>

get_vits_zh_aishell3_config(repo_id, got, speed) ==
    OfflineTtsConfig(
        OfflineTtsVitsModelConfig(got[1], got[2], got[3], "", "", length_scale(speed)),
        "cpu", TRUE, 2, str_join(",", SubSeq(got, 4, 7)), got[8])

\* the identifier as it is, tag and all
get_vits_hf_repo_tagged(repo_id) == repo_id

\* repo_id.split("|")[0]
get_vits_hf_repo(repo_id) == str_split(repo_id, "|")[1]

\* the base name of the model file (taken from the repo_id without its tag)
get_vits_hf_model(repo) ==
    IF str_in("fanchen", repo) \/ str_in("vits-cantonese-hf-xiaomaiiwn", repo)
    THEN last(str_split(repo, "/"))
    ELSE last(str_split(repo, "-"))

\* the get_file calls with the rule files in another order
get_vits_hf_files_reordered(repo_id) ==
    LET repo == get_vits_hf_repo(repo_id)
    IN  <<<<repo, get_vits_hf_model(repo) \o ".onnx">>, <<repo, "lexicon.txt">>,
          <<repo, "tokens.txt">>, <<repo, "date.fst">>, <<repo, "phone.fst">>,
          <<repo, "number.fst">>, <<repo, "new_heteronym.fst">>>>

get_vits_hf_files(repo_id) ==
    LET repo == get_vits_hf_repo(repo_id)
    IN  <<<<repo, get_vits_hf_model(repo) \o ".onnx">>, <<repo, "lexicon.txt">>,
          <<repo, "tokens.txt">>>>
        \o (IF ~str_in("vits-cantonese-hf-xiaomaiiwn", repo)
            THEN <<<<repo, "phone.fst">>, <<repo, "date.fst">>, <<repo, "number.fst">>,
                   <<repo, "new_heteronym.fst">>>>
            ELSE <<<<repo, "rule.fst">>>>)

\* the configuration with the dictionary directory for every identifier
get_vits_hf_config_dict(repo_id, got, speed) ==
    LET repo == get_vits_hf_repo(repo_id)
        plain == ~str_in("vits-cantonese-hf-xiaomaiiwn", repo)
        rule_fsts == IF plain THEN str_join(",", SubSeq(got, 4, 7)) ELSE got[4]
    IN  OfflineTtsConfig(
            OfflineTtsVitsModelConfig(got[1], got[2], got[3], "", "/tmp/dict",
                                      length_scale(speed)),
            "cpu", TRUE, 2, rule_fsts, "")

get_vits_hf_config(repo_id, got, speed) ==
    LET repo == get_vits_hf_repo(repo_id)
        plain == ~str_in("vits-cantonese-hf-xiaomaiiwn", repo)
        rule_fsts == IF plain THEN str_join(",", SubSeq(got, 4, 7)) ELSE got[4]
        vits_dict_dir == IF plain THEN "/tmp/dict" ELSE ""
    IN  OfflineTtsConfig(
            OfflineTtsVitsModelConfig(got[1], got[2], got[3], "", vits_dict_dir,
                                      length_scale(speed)),
            "cpu", TRUE, 2, rule_fsts, "")

\* The functions under @lru_cache; _get_vits_mms has no body of its own but
\* the call of _get_vits_piper.
Builders ==
    {"_get_vits_vctk", "_get_vits_ljs", "_get_vits_piper", "_get_vits_zh_aishell3",
     "_get_vits_hf"}

Cached == Builders \cup {"_get_vits_mms", "get_pretrained_model"}

builder_check(f, repo_id) ==
    CASE f = "_get_vits_vctk" -> get_vits_vctk_check(repo_id)
      [] f = "_get_vits_ljs" -> get_vits_ljs_check(repo_id)
      [] f = "_get_vits_piper" -> get_vits_piper_check(repo_id)
      [] f = "_get_vits_zh_aishell3" -> get_vits_zh_aishell3_check(repo_id)
      [] f = "_get_vits_hf" -> "ok"

builder_files(f, repo_id) ==
    CASE f = "_get_vits_vctk" -> get_vits_vctk_files(repo_id)
      [] f = "_get_vits_ljs" -> get_vits_ljs_files(repo_id)
      [] f = "_get_vits_piper" -> get_vits_piper_files(repo_id)
      [] f = "_get_vits_zh_aishell3" -> get_vits_zh_aishell3_files(repo_id)
      [] f = "_get_vits_hf" -> get_vits_hf_files(repo_id)

builder_config(f, repo_id, got, speed) ==
    CASE f = "_get_vits_vctk" -> get_vits_vctk_config(repo_id, got, speed)
      [] f = "_get_vits_ljs" -> get_vits_ljs_config(repo_id, got, speed)
      [] f = "_get_vits_piper" -> get_vits_piper_config(repo_id, got, speed)
      [] f = "_get_vits_zh_aishell3" -> get_vits_zh_aishell3_config(repo_id, got, speed)
      [] f = "_get_vits_hf" -> get_vits_hf_config(repo_id, got, speed)

(***************************************************************************)
(* functools.lru_cache(maxsize=10): the entries [key, val] of one cache,   *)
(* least recently used first.                                              *)
(***************************************************************************)

maxsize == 10

cache_has(c, key) == \E i \in DOMAIN c : c[i].key = key

cache_get(c, key) == c[CHOOSE i \in DOMAIN c : c[i].key = key].val

cache_keys(c) == {c[i].key : i \in DOMAIN c}

\* a hit without the move to the most recently used end
lru_hit_unmoved(c, key) == c

\* a hit moves the entry to the most recently used end
lru_hit(c, key) ==
    LET i == CHOOSE j \in DOMAIN c : c[j].key = key
    IN  Append(SubSeq(c, 1, i - 1) \o SubSeq(c, i + 1, Len(c)), c[i])

\* a miss that enters a placeholder for the key before the function runs
lru_miss_reserve(c, key) == Append(c, [key |-> key, val |-> 0])

\* a miss leaves the cache as it is while the function runs
lru_miss(c, key) == c

\* a cache that stores nothing
lru_store_nothing(c, key, val) == c

\* after a miss and the call of the function: the result is stored unless
\* the key was stored while the function ran; a full cache drops its least
\* recently used entry
lru_store(c, key, val) ==
    IF cache_has(c, key) THEN c
    ELSE IF Len(c) < maxsize THEN Append(c, [key |-> key, val |-> val])
    ELSE Append(Tail(c), [key |-> key, val |-> val])

(***************************************************************************)
(* get_pretrained_model: the if/elif chain over the tables.                *)
(***************************************************************************)

\* the chain without its last branch
model_tables_short ==
    <<
       chinese_models, cantonese_models, english_models, german_models,
       spanish_models, french_models, ukrainian_models, russian_models,
       arabic_models, catalan_models, czech_models, danish_models,
       greek_models, finnish_models, hungarian_models, icelandic_models,
       italian_models, georgian_models, kazakh_models, luxembourgish_models,
       nepali_models, dutch_models, norwegian_models, polish_models,
       portuguese_models, romanian_models, slovak_models, serbian_models,
       swedish_models, swahili_models, turkish_models, vietnamese_models,
       bulgarian_models, estonian_models, irish_models, croatian_models,
       lithuanian_models, latvian_models, maltese_models, slovenian_models,
       bengali_models, min_nan_models, thai_models, persian_models,
       korean_models, afrikaans_models, gujarati_models
    >>

model_tables ==
    <<
       chinese_models, cantonese_models, english_models, german_models,
       spanish_models, french_models, ukrainian_models, russian_models,
       arabic_models, catalan_models, czech_models, danish_models,
       greek_models, finnish_models, hungarian_models, icelandic_models,
       italian_models, georgian_models, kazakh_models, luxembourgish_models,
       nepali_models, dutch_models, norwegian_models, polish_models,
       portuguese_models, romanian_models, slovak_models, serbian_models,
       swedish_models, swahili_models, turkish_models, vietnamese_models,
       bulgarian_models, estonian_models, irish_models, croatian_models,
       lithuanian_models, latvian_models, maltese_models, slovenian_models,
       bengali_models, min_nan_models, thai_models, persian_models,
       korean_models, afrikaans_models, gujarati_models, tswana_models
    >>

\* the chain with a default builder in place of its final else
get_pretrained_model_default(repo_id) ==
    IF \E i \in DOMAIN model_tables : dict_has(model_tables[i], repo_id)
    THEN [ok |-> TRUE,
          fn |-> dict_get(model_tables[CHOOSE j \in DOMAIN model_tables :
                                           dict_has(model_tables[j], repo_id)], repo_id)]
    ELSE [ok |-> TRUE, fn |-> "_get_vits_piper"]

\* the builder of the first table that holds repo_id, or the ValueError
get_pretrained_model(repo_id) ==
    IF \E i \in DOMAIN model_tables : dict_has(model_tables[i], repo_id)
    THEN LET i == CHOOSE j \in DOMAIN model_tables :
                    /\ dict_has(model_tables[j], repo_id)
                    /\ \A k \in 1..(j - 1) : ~dict_has(model_tables[k], repo_id)
         IN  [ok |-> TRUE, fn |-> dict_get(model_tables[i], repo_id)]
    ELSE [ok |-> FALSE, fn |-> "ValueError"]

(***************************************************************************)
(* language_to_models: language -> list(<table>.keys()).  The names of     *)
(* three languages carry their name in Chinese characters in parentheses;  *)
(* it is left out here, the names stay different from one another.         *)
(***************************************************************************)

\* src/model.py:746-795
language_to_models ==
    dict(<<
        <<"English", dict_keys(english_models)>>,
        <<"Chinese (Mandarin)", dict_keys(chinese_models)>>,
        <<"Cantonese", dict_keys(cantonese_models)>>,
        <<"Min-nan", dict_keys(min_nan_models)>>,
        <<"Arabic", dict_keys(arabic_models)>>,
        <<"Afrikaans", dict_keys(afrikaans_models)>>,
        <<"Bengali", dict_keys(bengali_models)>>,
        <<"Bulgarian", dict_keys(bulgarian_models)>>,
        <<"Catalan", dict_keys(catalan_models)>>,
        <<"Croatian", dict_keys(croatian_models)>>,
        <<"Czech", dict_keys(czech_models)>>,
        <<"Danish", dict_keys(danish_models)>>,
        <<"Dutch", dict_keys(dutch_models)>>,
        <<"Estonian", dict_keys(estonian_models)>>,
        <<"Finnish", dict_keys(finnish_models)>>,
        <<"French", dict_keys(french_models)>>,
        <<"Georgian", dict_keys(georgian_models)>>,
        <<"German", dict_keys(german_models)>>,
        <<"Greek", dict_keys(greek_models)>>,
        <<"Gujarati", dict_keys(gujarati_models)>>,
        <<"Hungarian", dict_keys(hungarian_models)>>,
        <<"Icelandic", dict_keys(icelandic_models)>>,
        <<"Irish", dict_keys(irish_models)>>,
        <<"Italian", dict_keys(italian_models)>>,
        <<"Kazakh", dict_keys(kazakh_models)>>,
        <<"Korean", dict_keys(korean_models)>>,
        <<"Latvian", dict_keys(latvian_models)>>,
        <<"Lithuanian", dict_keys(lithuanian_models)>>,
        <<"Luxembourgish", dict_keys(luxembourgish_models)>>,
        <<"Maltese", dict_keys(maltese_models)>>,
        <<"Nepali", dict_keys(nepali_models)>>,
        <<"Norwegian", dict_keys(norwegian_models)>>,
        <<"Persian", dict_keys(persian_models)>>,
        <<"Polish", dict_keys(polish_models)>>,
        <<"Portuguese", dict_keys(portuguese_models)>>,
        <<"Romanian", dict_keys(romanian_models)>>,
        <<"Russian", dict_keys(russian_models)>>,
        <<"Serbian", dict_keys(serbian_models)>>,
        <<"Slovak", dict_keys(slovak_models)>>,
        <<"Slovenian", dict_keys(slovenian_models)>>,
        <<"Spanish", dict_keys(spanish_models)>>,
        <<"Swahili", dict_keys(swahili_models)>>,
        <<"Swedish", dict_keys(swedish_models)>>,
        <<"Thai", dict_keys(thai_models)>>,
        <<"Tswana", dict_keys(tswana_models)>>,
        <<"Turkish", dict_keys(turkish_models)>>,
        <<"Ukrainian", dict_keys(ukrainian_models)>>,
        <<"Vietnamese", dict_keys(vietnamese_models)>>
    >>)

(***************************************************************************)
(* The workload.  Gradio runs process for each click, on a thread of its   *)
(* own.  A request names a key of KeyOrder: the next key not yet           *)
(* requested or, at most MaxRepeats times in a run, one of the first Hot   *)
(* keys or the latest key again.  A speed is in tenths; the sid is the     *)
(* text of the Speaker ID box.  The environment (the network, the hub, the *)
(* library) may fail a step, as often as the run's allowance says.         *)
(***************************************************************************)

Threads == {"t1", "t2"}

\* calls of process per thread when both threads run
MaxCalls == 2

\* requests in one run that are not for the next key of KeyOrder
MaxRepeats == 2

\* how many of the first keys of KeyOrder may be requested again at any time
Hot == 2

\* the most samples an engine generates
MaxSamples == 1

\* the most failures of the environment (a download, a get_file call or an
\* instantiation that fails) in one run
MaxFaults == 1

\* the count of downloads stops here
MaxDownloads == 2

\* calls of process in a run that starts at some key of KeyOrder
CallsInRow == 2

\* calls of process per thread when both threads run and nothing fails
CallsEach == 1

KeyOrder ==
    <<
       <<"csukuangfj/vits-zh-hf-keqing|804", 10>>,
       <<"csukuangfj/vits-mms-nan", 10>>,
       <<"csukuangfj/vits-piper-zh_CN-huayan-x_low", 10>>,
       <<"csukuangfj/vits-piper-en_US-glados", 0>>,
       <<"csukuangfj/vits-piper-en_US-glados", 10>>,
       <<"csukuangfj/vits-vctk", 10>>,
       <<"csukuangfj/vits-ljs", 10>>,
       <<"csukuangfj/vits-zh-aishell3", 10>>,
       <<"csukuangfj/vits-cantonese-hf-xiaomaiiwn", 10>>,
       <<"csukuangfj/vits-zh-hf-keqing|804", 20>>,
       <<"csukuangfj/vits-coqui-uk-mai", 10>>,
       <<"csukuangfj/vits-mimic3-es_ES-m-ailabs_low", 5>>,
       <<"csukuangfj/vits-zh-hf-fanchen-C|187", 10>>,
       <<"csukuangfj/vits-mms-tha", 10>>,
       <<"csukuangfj/vits-piper-en_US-glados", 0 - 10>>
    >>

\* the text of the Speaker ID box: its initial value (app.py:153)
SidDefault == "0"

\* what a user may type into the box instead
SidInputs == {"0", "x", "-1"}

RECURSIVE table_keys(_)
\* the identifiers of the tables, table after table
table_keys(tables) ==
    IF tables = <<>> THEN <<>> ELSE dict_keys(Head(tables)) \o table_keys(Tail(tables))

\* every identifier some table holds
registered == table_keys(model_tables)

\* the speeds at which the identifiers of the tables are requested
Speeds == <<10, 20>>

\* every identifier of the tables at each speed of Speeds
RegistryKeys ==
    [n \in 1..(Len(registered) * Len(Speeds)) |->
        <<registered[((n - 1) \div Len(Speeds)) + 1], Speeds[((n - 1) % Len(Speeds)) + 1]>>]

(***************************************************************************)
(* src/app.py: the user interface and the start of the program.            *)
(***************************************************************************)

\* xs[0]: the first element of a list, IndexError for an empty list
first_item(xs) ==
    IF Len(xs) = 0 THEN [ok |-> FALSE, value |-> "IndexError"]
    ELSE [ok |-> TRUE, value |-> xs[1]]

\* update_model_dropdown that selects the last identifier of the list
update_model_dropdown_last(language) ==
    IF dict_has(language_to_models, language)
    THEN LET choices == dict_get(language_to_models, language)
         IN  IF first_item(choices).ok
             THEN [ok |-> TRUE, err |-> "", choices |-> choices,
                   value |-> choices[Len(choices)]]
             ELSE [ok |-> FALSE, err |-> first_item(choices).value, choices |-> <<>>,
                   value |-> ""]
    ELSE [ok |-> FALSE, err |-> "ValueError", choices |-> <<>>, value |-> ""]

\* src/app.py:57-62: gr.Dropdown.update(choices=choices, value=choices[0]),
\* or the exception raised
update_model_dropdown(language) ==
    IF dict_has(language_to_models, language)
    THEN LET choices == dict_get(language_to_models, language)
         IN  IF first_item(choices).ok
             THEN [ok |-> TRUE, err |-> "", choices |-> choices,
                   value |-> first_item(choices).value]
             ELSE [ok |-> FALSE, err |-> first_item(choices).value, choices |-> <<>>,
                   value |-> ""]
    ELSE [ok |-> FALSE, err |-> "ValueError", choices |-> <<>>, value |-> ""]

\* src/app.py:119: language_choices = list(language_to_models.keys())
language_choices == dict_keys(language_to_models)

\* the languages a change event of the radio may carry: its choices, and
\* two texts that are no choice (an event sent through the API)
LanguageInputs == {language_choices[i] : i \in DOMAIN language_choices} \cup {"Klingon", ""}

\* the attributes of module os that the program names and os defines
os_attributes == {"system"}

\* src/app.py:190-197: os.sytem(...), the exception of the attribute lookup
\* or "ok" when the call was made
download_espeak_ng_data ==
    IF "sytem" \in os_attributes THEN "ok" ELSE "AttributeError"

\* src/app.py:115-132: the module was imported and demo built, the radio on
\* the first language and the dropdown on that language's first identifier
Imported ==
    [pc |-> "imported", espeak_ng_data |-> FALSE,
     language |-> first_item(language_choices).value,
     choices |-> dict_get(language_to_models, first_item(language_choices).value),
     value |-> first_item(dict_get(language_to_models,
                                   first_item(language_choices).value)).value,
     err |-> ""]

VARIABLES
    cache,      \* per function under @lru_cache: its entries, least recently used first
    tmp_dict,   \* whether the directory /tmp/dict exists
    downloads,  \* how many times the download of dict.tar.bz2 was started
    engines,    \* every OfflineTts instantiated so far: [config, key]
    faults,     \* how many failures (of a download, of get_file, of OfflineTts) the
                \* environment may still cause in this run
    th,         \* per thread: where it is in process and the locals of its call
    res,        \* per thread: what its latest call of process came to
    budget,     \* per thread: the calls of process it may still make
    seen,       \* the place in `keys' of the latest key requested for the first time
                \* (the keys before it are behind the run)
    repeats,    \* how many requests that are not for the next key the run may still make
    keys,       \* the keys of the run, in the order in which they are first requested
    accessed,   \* history: the keys in the order of their latest access (hit or
                \* insertion) in the cache of get_pretrained_model, oldest first
    calls,      \* history: the latest completed call of get_pretrained_model, after the
                \* one before it when that was a call for the same key
    app         \* the application: how far its start is, whether /tmp/espeak-ng-data
                \* exists, and the state of the language radio and the model dropdown

vars ==
    <<cache, tmp_dict, downloads, engines, faults, th, res, budget, seen, repeats, keys,
      accessed, calls, app>>

Idle ==
    [pc |-> "idle", repo_id |-> "", speed |-> 0, sid |-> 0, callee |-> "", stack |-> <<>>,
     got |-> <<>>, trace |-> <<>>, builds |-> 0, ret |-> 0, cold |-> FALSE,
     evicted |-> FALSE, samples |-> 0]

NoResult ==
    [kind |-> "none", err |-> "", key |-> <<"", 0>>, engine |-> 0, fetches |-> 0,
     builds |-> 0, samples |-> 0, wrote |-> FALSE]

\* a key that leaves the speed out
Key_without_speed(t) == <<th[t].repo_id, 0>>

\* the arguments of the call of thread t, the key of every lru_cache
Key(t) == <<th[t].repo_id, th[t].speed>>

InSeq(s, x) == \E i \in DOMAIN s : s[i] = x

Without(s, x) == SelectSeq(s, LAMBDA y : y # x)

Touch(s, x) == Append(Without(s, x), x)

\* what the environment may answer a step that can fail: success, or failure
\* while the run has failures left
Outcomes == IF faults > 0 THEN BOOLEAN ELSE {TRUE}

Record(h, c) == IF h # <<>> /\ last(h).key = c.key THEN <<last(h), c>> ELSE <<c>>

InitRun(b, f, r, k, first) ==
    /\ cache = [g \in Cached |-> <<>>]
    /\ tmp_dict = FALSE
    /\ downloads = 0
    /\ engines = <<>>
    /\ faults = f
    /\ th = [t \in Threads |-> Idle]
    /\ res = [t \in Threads |-> NoResult]
    /\ budget = b
    /\ seen \in first
    /\ repeats = r
    /\ keys = k
    /\ accessed = <<>>
    /\ calls = <<>>

\* the module app was imported by a program that serves demo itself
InitWith(b, f, r, k, first) ==
    /\ InitRun(b, f, r, k, first)
    /\ app = Imported

\* two threads of MaxCalls calls each, from the first key on
Init == InitWith([t \in Threads |-> MaxCalls], MaxFaults, MaxRepeats, KeyOrder, {0})

\* one thread that goes through all of KeyOrder; nothing fails
InitSeq ==
    InitWith([t \in Threads |-> IF t = "t1" THEN Len(KeyOrder) + MaxRepeats ELSE 0], 0,
             MaxRepeats, KeyOrder, {0})

\* one thread of CallsInRow calls that starts at any key of KeyOrder
InitFault ==
    InitWith([t \in Threads |-> IF t = "t1" THEN CallsInRow ELSE 0], MaxFaults, MaxRepeats,
             KeyOrder, 0..(Len(KeyOrder) - 1))

\* two threads of CallsEach calls each, from the first key on; nothing fails
InitPair == InitWith([t \in Threads |-> CallsEach], 0, MaxRepeats, KeyOrder, {0})

\* one thread of CallsInRow calls that starts at any identifier of the
\* model tables, at each speed of Speeds; nothing fails and no key is
\* requested twice
InitRegistry ==
    InitWith([t \in Threads |-> IF t = "t1" THEN CallsInRow ELSE 0], 0, 0,
             RegistryKeys, 0..(Len(RegistryKeys) - 1))

\* every identifier the interface offers, language after language in the
\* order of language_to_models and of its lists, at the first speed
OfferedKeys ==
    LET places == UNION {{<<i, n>> : n \in DOMAIN language_to_models[i][2]} :
                            i \in DOMAIN language_to_models}
        rank(p) == Cardinality({q \in places :
                                    q[1] < p[1] \/ (q[1] = p[1] /\ q[2] <= p[2])})
    IN  [k \in 1..Cardinality(places) |->
            LET p == CHOOSE q \in places : rank(q) = k
            IN  <<language_to_models[p[1]][2][p[2]], Speeds[1]>>]

\* one identifier of _get_vits_hf and one of _get_vits_mms
AppKeys == <<<<"csukuangfj/vits-zh-hf-keqing|804", 10>>, <<"csukuangfj/vits-mms-nan", 10>>>>

\* the program starts as the main program or is imported; one thread of
\* CallsInRow calls through AppKeys; nothing fails
InitApp ==
    /\ InitRun([t \in Threads |-> IF t = "t1" THEN CallsInRow ELSE 0], 0, 0, AppKeys, {0})
    /\ app \in {[Imported EXCEPT !.pc = "main"], Imported}

\* the interface is up: handlers are called
Serving == app.pc \in {"imported", "serving"}

Requests ==
    {[key |-> keys[i], fresh |-> FALSE] :
        i \in {j \in 1..seen : repeats > 0 /\ (j <= Hot \/ j = seen)}}
    \cup {[key |-> keys[i], fresh |-> TRUE] : i \in {j \in DOMAIN keys : j = seen + 1}}

\* what a call of get_pretrained_model came to, for `calls'
Summary(t, ok, err, engine, fetches) ==
    [key |-> Key(t), ok |-> ok, err |-> err, engine |-> engine, fetches |-> fetches,
     builds |-> th[t].builds, cold |-> th[t].cold, evicted |-> th[t].evicted]

\* an exception raised inside get_pretrained_model: no frame catches it (the
\* lru_cache wrappers store nothing on an exception) and process ends with it
Raise(t, err, trace) ==
    /\ th' = [th EXCEPT ![t] = Idle]
    /\ res' = [res EXCEPT ![t] =
                 [NoResult EXCEPT !.kind = "raised", !.err = err, !.key = Key(t),
                                  !.fetches = Len(trace), !.builds = th[t].builds]]
    /\ calls' = Record(calls, Summary(t, FALSE, err, 0, Len(trace)))

\* get_pretrained_model returned engine e to process
Resolved(t, e) ==
    /\ th' = [th EXCEPT ![t] =
                [Idle EXCEPT !.pc = "generate", !.repo_id = th[t].repo_id,
                             !.speed = th[t].speed, !.sid = th[t].sid, !.ret = e]]
    /\ res' = [res EXCEPT ![t] =
                 [NoResult EXCEPT !.kind = "resolved", !.key = Key(t), !.engine = e,
                                  !.fetches = Len(th[t].trace), !.builds = th[t].builds]]
    /\ calls' = Record(calls, Summary(t, TRUE, "", e, Len(th[t].trace)))

\* request r asks again for the key that was requested last: the requests
\* with another text than the initial one in the Speaker ID box
Again(r) == ~r.fresh /\ r.key = keys[seen]

\* process, lines 75-78: sid = int(sid), then the call of get_pretrained_model
Process(t) ==
    /\ Serving
    /\ th[t].pc = "idle"
    /\ budget[t] > 0
    /\ budget' = [budget EXCEPT ![t] = @ - 1]
    /\ \E r \in Requests : \E s \in (IF Again(r) THEN SidInputs ELSE {SidDefault}) :
          IF ~int(s).ok
          THEN /\ ~r.fresh
               /\ res' = [res EXCEPT ![t] =
                            [NoResult EXCEPT !.kind = "raised", !.err = "ValueError"]]
               /\ repeats' = repeats - 1
               /\ UNCHANGED <<th, seen>>
          ELSE /\ th' = [th EXCEPT ![t] =
                           [Idle EXCEPT !.pc = "wrapper", !.repo_id = r.key[1],
                                        !.speed = r.key[2], !.sid = int(s).value,
                                        !.callee = "get_pretrained_model"]]
               /\ res' = [res EXCEPT ![t] = NoResult]
               /\ seen' = IF r.fresh THEN seen + 1 ELSE seen
               /\ repeats' = IF r.fresh THEN repeats ELSE repeats - 1
    /\ UNCHANGED <<app, keys, cache, tmp_dict, downloads, engines, faults, accessed, calls>>

\* a wrapper that keeps its lock while the function it wraps runs
holds_lock_in_body(u, f) == InSeq(th[u].stack, f)

\* thread u holds the lock of the cache of function f between two steps:
\* never, the wrapper of lru_cache takes its lock for a lookup or a store
\* alone and calls the wrapped function without it
holds_lock(u, f) == FALSE

\* thread t can take the lock of the cache of function f
Unlocked(t, f) == \A u \in Threads \ {t} : ~holds_lock(u, f)

\* the wrapper of lru_cache around the function th[t].callee: a hit returns
\* the cached engine, a miss calls the function
Wrapper(t) ==
    /\ th[t].pc = "wrapper"
    /\ Unlocked(t, th[t].callee)
    /\ LET f == th[t].callee
           key == Key(t)
           outer == f = "get_pretrained_model"
       IN  IF cache_has(cache[f], key)
           THEN /\ cache' = [cache EXCEPT ![f] = lru_hit(@, key)]
                /\ IF outer
                   THEN /\ accessed' = Touch(accessed, key)
                        /\ Resolved(t, cache_get(cache[f], key))
                   ELSE /\ th' = [th EXCEPT ![t] =
                                     IF th[t].stack = <<>> THEN Idle
                                     ELSE [@ EXCEPT !.pc = "return",
                                                    !.ret = cache_get(cache[f], key)]]
                        /\ UNCHANGED <<accessed, res, calls>>
           ELSE /\ cache' = [cache EXCEPT ![f] = lru_miss(@, key)]
                /\ th' = [th EXCEPT ![t].pc = "body",
                                    ![t].stack = Append(@, f),
                                    ![t].cold =
                                        IF outer
                                        THEN \A g \in Cached : ~cache_has(cache[g], key)
                                        ELSE @,
                                    ![t].evicted =
                                        IF outer THEN InSeq(accessed, key) ELSE @]
                /\ UNCHANGED <<accessed, res, calls>>
    /\ UNCHANGED <<app, keys, tmp_dict, downloads, engines, faults, budget, seen, repeats>>

\* the body of get_pretrained_model: the chain of membership tests
Dispatch(t) ==
    /\ th[t].pc = "body"
    /\ last(th[t].stack) = "get_pretrained_model"
    /\ IF get_pretrained_model(th[t].repo_id).ok
       THEN /\ th' = [th EXCEPT ![t].pc = "wrapper",
                                ![t].callee = get_pretrained_model(th[t].repo_id).fn]
            /\ UNCHANGED <<res, calls>>
       ELSE Raise(t, "ValueError", th[t].trace)
    /\ UNCHANGED <<app, keys, cache, tmp_dict, downloads, engines, faults, budget, seen, repeats, accessed>>

\* the body of _get_vits_mms: return _get_vits_piper(repo_id, speed)
Delegate(t) ==
    /\ th[t].pc = "body"
    /\ last(th[t].stack) = "_get_vits_mms"
    /\ th' = [th EXCEPT ![t].pc = "wrapper", ![t].callee = "_get_vits_piper"]
    /\ UNCHANGED <<app, keys, cache, tmp_dict, downloads, engines, faults, res, budget, seen, repeats, accessed,
                   calls>>

\* a builder's body up to its first effect: its assertion or the choice of
\* the model file's name
Enter(t) ==
    /\ th[t].pc = "body"
    /\ last(th[t].stack) \in Builders
    /\ LET f == last(th[t].stack)
       IN  IF builder_check(f, th[t].repo_id) = "ok"
           THEN /\ th' = [th EXCEPT ![t].pc = IF f = "_get_vits_hf" THEN "dict_check"
                                              ELSE "get_file",
                                    ![t].builds = @ + 1]
                /\ UNCHANGED <<res, calls>>
           ELSE Raise(t, builder_check(f, th[t].repo_id), th[t].trace)
    /\ UNCHANGED <<app, keys, cache, tmp_dict, downloads, engines, faults, budget, seen, repeats, accessed>>

\* _get_vits_hf, line 240: if not Path("/tmp/dict").is_dir()
DictCheck(t) ==
    /\ th[t].pc = "dict_check"
    /\ th' = [th EXCEPT ![t].pc = IF tmp_dict THEN "get_file" ELSE "dict_download"]
    /\ UNCHANGED <<app, keys, cache, tmp_dict, downloads, engines, faults, res, budget, seen, repeats, accessed,
                   calls>>

\* _get_vits_hf, lines 241-244: os.system runs curl and tar; its exit status
\* is not looked at, so the builder goes on whether or not /tmp/dict came to be
DictDownload(t) ==
    /\ th[t].pc = "dict_download"
    /\ \E done \in Outcomes :
          /\ tmp_dict' = (tmp_dict \/ done)
          /\ faults' = IF done THEN faults ELSE faults - 1
    /\ downloads' = IF downloads < MaxDownloads THEN downloads + 1 ELSE downloads
    /\ th' = [th EXCEPT ![t].pc = "get_file"]
    /\ UNCHANGED <<app, keys, cache, engines, res, budget, seen, repeats, accessed, calls>>

\* the builder's next get_file call: it returns the local path or raises
GetFile(t) ==
    /\ th[t].pc = "get_file"
    /\ LET files == builder_files(last(th[t].stack), th[t].repo_id)
           n == Len(th[t].got) + 1
           trace == Append(th[t].trace, files[n])
       IN  \E found \in Outcomes :
              IF found
              THEN /\ th' = [th EXCEPT
                               ![t].got = Append(@, get_file(files[n][1], files[n][2], ".")),
                               ![t].trace = trace,
                               ![t].pc = IF n = Len(files) THEN "instantiate"
                                         ELSE "get_file"]
                   /\ UNCHANGED <<res, calls, faults>>
              ELSE /\ Raise(t, "HfHubHTTPError", trace)
                   /\ faults' = faults - 1
    /\ UNCHANGED <<app, keys, cache, tmp_dict, downloads, engines, budget, seen, repeats, accessed>>

\* the builder assembles the configuration (1.0 / speed raises for the speed
\* 0) and instantiates sherpa_onnx.OfflineTts, which the library may refuse
Instantiate(t) ==
    /\ th[t].pc = "instantiate"
    /\ IF th[t].speed = 0
       THEN /\ Raise(t, "ZeroDivisionError", th[t].trace)
            /\ UNCHANGED <<engines, faults>>
       ELSE \E made \in Outcomes :
              IF made
              THEN /\ engines' = Append(engines,
                                   [config |-> builder_config(last(th[t].stack),
                                                   th[t].repo_id, th[t].got, th[t].speed),
                                    key |-> Key(t)])
                   /\ th' = [th EXCEPT ![t].pc = "return", ![t].ret = Len(engines) + 1]
                   /\ UNCHANGED <<res, calls, faults>>
              ELSE /\ Raise(t, "RuntimeError", th[t].trace)
                   /\ engines' = engines
                   /\ faults' = faults - 1
    /\ UNCHANGED <<app, keys, cache, tmp_dict, downloads, budget, seen, repeats, accessed>>

\* a function returns to the lru_cache wrapper that called it: the wrapper
\* stores the result and returns it to its own caller
Return(t) ==
    /\ th[t].pc = "return"
    /\ Unlocked(t, last(th[t].stack))
    /\ LET f == last(th[t].stack)
           key == Key(t)
       IN  /\ cache' = [cache EXCEPT ![f] = lru_store(@, key, th[t].ret)]
           /\ IF f = "get_pretrained_model"
              THEN /\ accessed' = IF cache_has(cache[f], key) THEN accessed
                                  ELSE Touch(accessed, key)
                   /\ Resolved(t, th[t].ret)
              ELSE /\ th' = [th EXCEPT ![t] =
                                IF Len(th[t].stack) = 1 THEN Idle
                                ELSE [@ EXCEPT !.stack = SubSeq(@, 1, Len(@) - 1)]]
                   /\ UNCHANGED <<accessed, res, calls>>
    /\ UNCHANGED <<app, keys, tmp_dict, downloads, engines, faults, budget, seen, repeats>>

\* a check that lets an empty result through
no_samples_unchecked(n) == FALSE

\* process, line 84: len(audio.samples) == 0
no_samples(n) == n = 0

\* process, lines 80-87: tts.generate, then the check for an empty result
Generate(t) ==
    /\ th[t].pc = "generate"
    /\ \E n \in 0..MaxSamples :
          IF no_samples(n)
          THEN /\ th' = [th EXCEPT ![t] = Idle]
               /\ res' = [res EXCEPT ![t].kind = "raised", ![t].err = "ValueError",
                                     ![t].samples = n]
          ELSE /\ th' = [th EXCEPT ![t].pc = "write", ![t].samples = n]
               /\ res' = [res EXCEPT ![t].samples = n]
    /\ UNCHANGED <<app, keys, cache, tmp_dict, downloads, engines, faults, budget, seen, repeats, accessed, calls>>

\* process, lines 89-112: the file <uuid>.wav is written and returned with
\* the timing text
Write(t) ==
    /\ th[t].pc = "write"
    /\ res' = [res EXCEPT ![t].kind = "returned", ![t].wrote = TRUE]
    /\ th' = [th EXCEPT ![t] = Idle]
    /\ UNCHANGED <<app, keys, cache, tmp_dict, downloads, engines, faults, budget, seen, repeats, accessed,
                   calls>>

Next ==
    \E t \in Threads :
        \/ Process(t)
        \/ Wrapper(t)
        \/ Dispatch(t)
        \/ Delegate(t)
        \/ Enter(t)
        \/ DictCheck(t)
        \/ DictDownload(t)
        \/ GetFile(t)
        \/ Instantiate(t)
        \/ Return(t)
        \/ Generate(t)
        \/ Write(t)

\* src/app.py:200-206: download_espeak_ng_data(), logging.basicConfig,
\* demo.launch(); os.system returns the exit status of the shell, which the
\* program drops, so the directory may be missing after a call that was made
Main ==
    /\ app.pc = "main"
    /\ IF download_espeak_ng_data = "ok"
       THEN \E unpacked \in BOOLEAN :
               app' = [app EXCEPT !.pc = "serving", !.espeak_ng_data = unpacked]
       ELSE app' = [app EXCEPT !.pc = "crashed", !.err = download_espeak_ng_data]
    /\ UNCHANGED <<cache, tmp_dict, downloads, engines, faults, th, res, budget, seen,
                   repeats, keys, accessed, calls>>

\* src/app.py:134-138: language_radio.change(update_model_dropdown,
\* inputs=language_radio, outputs=model_dropdown); an exception of the
\* handler leaves the dropdown as it was
UpdateModelDropdown ==
    /\ Serving
    /\ \E language \in LanguageInputs :
          LET r == update_model_dropdown(language)
          IN  app' = IF r.ok
                     THEN [app EXCEPT !.language = language, !.choices = r.choices,
                                      !.value = r.value, !.err = ""]
                     ELSE [app EXCEPT !.language = language, !.err = r.err]
    /\ UNCHANGED <<cache, tmp_dict, downloads, engines, faults, th, res, budget, seen,
                   repeats, keys, accessed, calls>>

\* identifiers for a call of _get_vits_piper: one of each family, one with
\* "vits-coqui-uk-mai", one with "vits-mms", one with the marks of two
\* families and two of no family
PiperInputs ==
    {"csukuangfj/vits-coqui-en-ljspeech", "csukuangfj/vits-coqui-uk-mai",
     "csukuangfj/vits-mms-nan", "csukuangfj/vits-piper-en_US-glados",
     "csukuangfj/vits-mimic3-es_ES-m-ailabs_low", "csukuangfj/vits-piper-coqui-voice",
     "csukuangfj/vits-piper-mimic3-voice", "csukuangfj/vits-vctk",
     "csukuangfj/vits-zh-hf-keqing"}

\* a program that has imported the module calls _get_vits_piper itself
\* (src/model.py:117-118: the function under its lru_cache)
DirectCall(t) ==
    /\ Serving
    /\ th[t].pc = "idle"
    /\ budget[t] > 0
    /\ budget' = [budget EXCEPT ![t] = @ - 1]
    /\ \E repo_id \in PiperInputs :
          th' = [th EXCEPT ![t] =
                    [Idle EXCEPT !.pc = "wrapper", !.repo_id = repo_id, !.speed = Speeds[1],
                                 !.callee = "_get_vits_piper"]]
    /\ res' = [res EXCEPT ![t] = NoResult]
    /\ UNCHANGED <<app, keys, cache, tmp_dict, downloads, engines, faults, seen, repeats,
                   accessed, calls>>

\* the requests and the calls of _get_vits_piper from outside
NextPiper ==
    \/ Next
    \/ \E t \in Threads : DirectCall(t)

\* the requests, the events of the language radio and the start of the program
NextApp ==
    \/ Next
    \/ Main
    \/ UpdateModelDropdown

\* two threads, every interleaving of their steps
Spec == Init /\ [][Next]_vars

\* one thread: the calls follow one another
SpecSeq == InitSeq /\ [][Next]_vars

\* one thread, a few calls in a row, the environment may fail
SpecFault == InitFault /\ [][Next]_vars

\* two threads, every interleaving, no failures
SpecPair == InitPair /\ [][Next]_vars

\* one thread, a few calls in a row, over all the identifiers of the tables
SpecRegistry == InitRegistry /\ [][Next]_vars

\* one thread of CallsInRow calls that starts at any identifier the
\* interface offers; nothing fails and no key is requested twice
InitOffered ==
    InitWith([t \in Threads |-> IF t = "t1" THEN CallsInRow ELSE 0], 0, 0,
             OfferedKeys, 0..(Len(OfferedKeys) - 1))

SpecOffered == InitOffered /\ [][Next]_vars

\* one thread of CallsInRow calls, each a request through AppKeys or a call
\* of _get_vits_piper; nothing fails
InitPiper == InitWith([t \in Threads |-> IF t = "t1" THEN CallsInRow ELSE 0], 0, 0, AppKeys, {0})

SpecPiper == InitPiper /\ [][NextPiper]_vars

\* the start of the program, the language radio and a few requests
SpecApp == InitApp /\ [][NextApp]_vars

(***************************************************************************)
(* Properties.                                                             *)
(***************************************************************************)

Outer == cache["get_pretrained_model"]

\* no thread is inside get_pretrained_model
Settled == \A t \in Threads : th[t].pc \in {"idle", "generate", "write"}

\* the engines some cache still holds
Retained == UNION {{cache[f][i].val : i \in DOMAIN cache[f]} : f \in Cached}

InNoTable(repo_id) == \A i \in DOMAIN model_tables : ~dict_has(model_tables[i], repo_id)

\* C1: of two calls of get_pretrained_model for one key with a speed above 0
\* that follow one another with no call between them, the first having
\* returned an engine, the second returns that same engine without running
\* a builder or calling get_file; and the first, when no cache held the key
\* before it, ran one builder and called get_file at least once.
C1_RepeatReturnsSameEngine ==
    (Len(calls) = 2 /\ calls[1].ok /\ calls[1].key[2] > 0)
        => /\ calls[2].ok
           /\ calls[2].engine = calls[1].engine
           /\ calls[2].fetches = 0
           /\ calls[2].builds = 0
           /\ calls[1].cold => (calls[1].builds = 1 /\ calls[1].fetches > 0)

C1_Witness ==
    /\ Len(calls) = 2
    /\ calls[1].ok /\ calls[1].cold /\ calls[1].fetches > 0 /\ calls[1].key[2] > 0
    /\ calls[2].ok /\ calls[2].engine = calls[1].engine /\ calls[2].fetches = 0

\* C2: for one key, at most one thread at a time is inside a builder, and
\* two finished calls for one key hold the same engine: K concurrent callers
\* of a key not yet cached cause one construction and share its engine.
C2_OneConstructionPerKey ==
    \A a, b \in Threads :
        (a # b /\ th[a].pc # "idle" /\ th[b].pc # "idle" /\ Key(a) = Key(b))
            => /\ ~(th[a].builds = 1 /\ th[b].builds = 1)
               /\ (th[a].pc \in {"generate", "write"} /\ th[b].pc \in {"generate", "write"})
                     => th[a].ret = th[b].ret

\* C3: a call for a key that the cache of get_pretrained_model held and has
\* evicted runs construction again: a builder body runs and get_file is
\* called.
C3_EvictedKeyIsRebuilt ==
    (calls # <<>> /\ last(calls).ok /\ last(calls).evicted)
        => (last(calls).builds = 1 /\ last(calls).fetches > 0)

\* C4: the cache of get_pretrained_model holds exactly the (at most maxsize)
\* keys accessed latest, hit or insertion, in the order of their access: so
\* the insertion of an 11th key into the cache of 10 drops the one key that
\* was accessed longest ago, and the 9 others and the new key stay.
C4_HoldsMostRecentlyUsed ==
    LET n == Len(Outer)
        m == Len(accessed)
    IN  /\ n = IF m < maxsize THEN m ELSE maxsize
        /\ \A i \in 1..n : Outer[i].key = accessed[m - n + i]

C4_Witness ==
    /\ Len(Outer) = maxsize
    /\ Len(accessed) > maxsize
    /\ cache_has(Outer, KeyOrder[1])
    /\ InSeq(accessed, KeyOrder[2]) /\ ~cache_has(Outer, KeyOrder[2])

\* C5: with no call in progress, the caches together hold at most maxsize
\* engines, and every engine a builder's cache holds is also held by the
\* cache of get_pretrained_model.
C5_AtMostMaxsizeRetained ==
    Settled => /\ Cardinality(Retained) <= maxsize
               /\ Retained \subseteq {Outer[i].val : i \in DOMAIN Outer}

\* C6: a call for an identifier of no table ends with ValueError, having
\* called get_file never and run no builder, and no cache ever holds a key
\* with such an identifier (so a call after it raises again).
C6_UnsupportedRaises ==
    /\ \A t \in Threads :
          /\ (th[t].pc # "idle" /\ InNoTable(th[t].repo_id))
                => (th[t].pc \in {"wrapper", "body"} /\ th[t].trace = <<>> /\ th[t].builds = 0)
          /\ (res[t].key[1] # "" /\ InNoTable(res[t].key[1]))
                => (res[t].kind = "raised" /\ res[t].err = "ValueError"
                    /\ res[t].fetches = 0 /\ res[t].builds = 0)
    /\ \A f \in Cached : \A k \in cache_keys(cache[f]) : ~InNoTable(k[1])
    /\ \A i \in DOMAIN calls : InNoTable(calls[i].key[1]) => ~calls[i].ok

C6_Witness ==
    /\ Len(calls) = 2
    /\ InNoTable(calls[2].key[1])
    /\ calls[1].err = "ValueError" /\ calls[2].err = "ValueError"
    /\ calls[2].fetches = 0

\* C7: a call with a speed of 0 or less never gets as far as a get_file call
\* or a builder, ends with an error, and no cache holds a key of such a speed.
C7_NonPositiveSpeedRejected ==
    /\ \A t \in Threads :
          /\ (th[t].pc # "idle" /\ th[t].speed <= 0)
                => (th[t].trace = <<>> /\ th[t].builds = 0)
          /\ (res[t].key[1] # "" /\ res[t].key[2] <= 0)
                => (res[t].kind = "raised" /\ res[t].fetches = 0)
    /\ \A f \in Cached : \A k \in cache_keys(cache[f]) : k[2] > 0

\* C8: process returns a result, and writes the .wav file, only for a
\* result of at least one sample; when generate gave no samples it ends with
\* ValueError and no file.
C8_EmptyOutputRaises ==
    \A t \in Threads :
        /\ th[t].pc = "write" => th[t].samples > 0
        /\ res[t].kind = "returned" => (res[t].samples > 0 /\ res[t].wrote)
        /\ (res[t].kind \in {"raised", "returned"} /\ res[t].engine # 0 /\ res[t].samples = 0)
              => (res[t].kind = "raised" /\ res[t].err = "ValueError" /\ ~res[t].wrote)

C8_Witness ==
    \E t \in Threads :
        /\ res[t].kind = "raised" /\ res[t].err = "ValueError"
        /\ res[t].engine # 0 /\ res[t].samples = 0 /\ ~res[t].wrote

\* C9: after a call whose construction failed (a builder ran and raised), no
\* cache holds the key; the next call for the key, following it with no
\* call between them, runs a builder again from its first get_file call,
\* and when it succeeds the cache of get_pretrained_model holds its engine.
C9_FailedBuildIsRetried ==
    /\ (Settled /\ calls # <<>> /\ ~last(calls).ok /\ last(calls).builds = 1)
          => \A f \in Cached : ~cache_has(cache[f], last(calls).key)
    /\ (Len(calls) = 2 /\ ~calls[1].ok /\ calls[1].builds = 1)
          => /\ calls[2].cold
             /\ calls[2].builds = 1
             /\ calls[2].fetches > 0
             /\ calls[2].ok => /\ cache_has(Outer, calls[2].key)
                               /\ cache_get(Outer, calls[2].key) = calls[2].engine

C9_Witness ==
    /\ Len(calls) = 2
    /\ ~calls[1].ok /\ calls[1].builds = 1 /\ calls[1].err = "HfHubHTTPError"
    /\ calls[2].ok /\ calls[2].builds = 1
    /\ cache_has(Outer, calls[2].key)

\* C10: a builder goes past a fetch step only when the step succeeded: the
\* builder _get_vits_hf is at its get_file calls or its instantiation only
\* with /tmp/dict in place, and a call that ended with the error of a fetch
\* has no engine.
C10_FailedFetchAborts ==
    \A t \in Threads :
        /\ (th[t].pc \in {"get_file", "instantiate"} /\ last(th[t].stack) = "_get_vits_hf")
              => tmp_dict
        /\ (res[t].kind = "raised" /\ res[t].err = "HfHubHTTPError") => res[t].engine = 0

\* the tables that hold repo_id
TablesWith(repo_id) == {i \in DOMAIN model_tables : dict_has(model_tables[i], repo_id)}

\* the languages whose list of language_to_models holds repo_id
LanguagesWith(repo_id) ==
    {i \in DOMAIN language_to_models : InSeq(language_to_models[i][2], repo_id)}

\* C11: the identifier of a request is a key of at most one per-language
\* table and is in the list of at most one language of language_to_models
\* (the requests go through every identifier of the tables).
C11_PartitionsDisjoint ==
    \A t \in Threads :
        th[t].repo_id # ""
            => /\ Cardinality(TablesWith(th[t].repo_id)) <= 1
               /\ Cardinality(LanguagesWith(th[t].repo_id)) <= 1

C11_Witness ==
    /\ seen = Len(keys)
    /\ \E t \in Threads :
          /\ th[t].pc = "get_file"
          /\ Cardinality(TablesWith(th[t].repo_id)) = 1
          /\ Cardinality(LanguagesWith(th[t].repo_id)) = 1

\* C12: every get_file call of a construction gets a repo_id and a filename
\* without the delimiter "|": for an identifier with a tag, the repo_id is
\* the identifier up to the delimiter, and the path that get_file returned
\* has no delimiter either.
C12_TagStrippedBeforeLookup ==
    \A t \in Threads :
        /\ \A n \in DOMAIN th[t].trace :
              /\ ~str_in("|", th[t].trace[n][1])
              /\ ~str_in("|", th[t].trace[n][2])
              /\ th[t].trace[n][1] = str_split(th[t].repo_id, "|")[1]
        /\ \A n \in DOMAIN th[t].got : ~str_in("|", th[t].got[n])

C12_Witness ==
    \E t \in Threads :
        /\ str_in("|", th[t].repo_id)
        /\ th[t].pc = "instantiate"
        /\ Len(th[t].trace) = 7
        /\ th[t].trace[1] = <<"csukuangfj/vits-zh-hf-fanchen-C", "vits-zh-hf-fanchen-C.onnx">>

\* an identifier of the piper, coqui or mimic3 family, by its name
PiperFamily(repo_id) ==
    str_in("piper", repo_id) \/ str_in("coqui", repo_id) \/ str_in("mimic3", repo_id)

\* scale is 1 / speed, for a speed in tenths
IsInverse(scale, speed) == scale[2] # 0 /\ scale[1] * speed = 10 * scale[2]

\* the engine that thread t's builder has just instantiated
Built(t) == engines[th[t].ret]

\* the engine of t is the one its builder has made in this call
JustBuilt(t) == th[t].pc = "return" /\ th[t].builds = 1 /\ last(th[t].stack) \in Builders

\* C13: the construction for an identifier of the piper, coqui or mimic3
\* family without a tag calls get_file twice, for the .onnx model file and
\* for tokens.txt of the identifier's repo, and the configuration of the
\* engine has an empty lexicon and length_scale = 1 / speed.
C13_SingleFileVoice ==
    \A t \in Threads :
        (PiperFamily(th[t].repo_id) /\ ~str_in("|", th[t].repo_id))
            => /\ Len(th[t].trace) <= 2
               /\ th[t].pc \in {"instantiate", "return"}
                     => /\ Len(th[t].trace) = 2
                        /\ th[t].trace[1][1] = th[t].repo_id
                        /\ Len(th[t].trace[1][2]) > 5
                        /\ str_from(th[t].trace[1][2], Len(th[t].trace[1][2]) - 5) = ".onnx"
                        /\ th[t].trace[2] = <<th[t].repo_id, "tokens.txt">>
               /\ JustBuilt(t)
                     => /\ Built(t).config.model.vits.lexicon = ""
                        /\ Built(t).config.model.vits.model = th[t].got[1]
                        /\ Built(t).config.model.vits.tokens = th[t].got[2]
                        /\ IsInverse(Built(t).config.model.vits.length_scale, th[t].speed)

C13_Witness ==
    \E t \in Threads :
        /\ th[t].repo_id = "csukuangfj/vits-piper-en_US-hfc_male-medium"
        /\ th[t].speed = 10
        /\ JustBuilt(t)
        /\ th[t].trace = <<<<th[t].repo_id, "en_US-hfc_male-medium.onnx">>,
                           <<th[t].repo_id, "tokens.txt">>>>
        /\ Built(t).config.model.vits.lexicon = ""
        /\ Built(t).config.model.vits.length_scale = <<1, 1>>

\* the get_file calls of a construction for an identifier with a tag, given
\* the name of its model file
TaggedFetches(repo, model) ==
    <<<<repo, model>>, <<repo, "lexicon.txt">>, <<repo, "tokens.txt">>, <<repo, "phone.fst">>,
      <<repo, "date.fst">>, <<repo, "number.fst">>, <<repo, "new_heteronym.fst">>>>

\* C14: the construction for an identifier with a tag calls get_file, with
\* the identifier up to the delimiter as repo_id, for the model file,
\* lexicon.txt, tokens.txt, phone.fst, date.fst, number.fst and
\* new_heteronym.fst in this order; the configuration has the paths of the
\* four rule files, in this order and joined by commas, as rule_fsts, and
\* length_scale = 1 / speed.
C14_TaggedVoice ==
    \A t \in Threads :
        str_in("|", th[t].repo_id)
            => LET repo == str_split(th[t].repo_id, "|")[1]
                   n == Len(th[t].trace)
               IN  /\ n <= 7
                   /\ n > 0 => th[t].trace = SubSeq(TaggedFetches(repo, th[t].trace[1][2]), 1, n)
                   /\ th[t].pc \in {"instantiate", "return"} => n = 7
                   /\ JustBuilt(t)
                         => /\ Built(t).config.rule_fsts =
                                  th[t].got[4] \o "," \o th[t].got[5] \o "," \o th[t].got[6]
                                      \o "," \o th[t].got[7]
                            /\ \A i \in 1..7 :
                                  th[t].got[i] = "hub/" \o repo \o "/" \o th[t].trace[i][2]
                            /\ Built(t).config.model.vits.model = th[t].got[1]
                            /\ Built(t).config.model.vits.lexicon = th[t].got[2]
                            /\ Built(t).config.model.vits.tokens = th[t].got[3]
                            /\ IsInverse(Built(t).config.model.vits.length_scale, th[t].speed)

C14_Witness ==
    \E t \in Threads :
        /\ th[t].repo_id = "csukuangfj/vits-zh-hf-keqing|804"
        /\ th[t].speed = 20
        /\ JustBuilt(t)
        /\ th[t].trace[1] = <<"csukuangfj/vits-zh-hf-keqing", "keqing.onnx">>
        /\ Built(t).config.model.vits.length_scale = <<1, 2>>
        /\ Built(t).config.rule_fsts =
              "hub/csukuangfj/vits-zh-hf-keqing/phone.fst,hub/csukuangfj/vits-zh-hf-keqing/date.fst,hub/csukuangfj/vits-zh-hf-keqing/number.fst,hub/csukuangfj/vits-zh-hf-keqing/new_heteronym.fst"

\* C15: process is past its call of tts.generate only with a speaker index
\* that is not negative: a negative index is refused before generate.
C15_SpeakerIndexChecked ==
    \A t \in Threads : th[t].pc = "write" => th[t].sid >= 0

\* C16: the download of dict.tar.bz2 is started at most once in a run.
C16_DictionaryFetchedOnce == downloads <= 1

\* thread t is inside the body of a builder, its engine not yet made
Constructing(t) == th[t].pc \in {"dict_check", "dict_download", "get_file", "instantiate"}

\* nothing but its own place in the code decides whether thread t can take
\* its next step: the two steps that need the lock of a cache, the lookup
\* and the store of a wrapper, find the lock free
CanStep(t) ==
    /\ th[t].pc = "wrapper" => Unlocked(t, th[t].callee)
    /\ th[t].pc = "return" => Unlocked(t, last(th[t].stack))

LegacyNames ==
    [n \in {"csukuangfj/vits-vctk", "csukuangfj/vits-ljs", "csukuangfj/vits-zh-aishell3"} |->
        CASE n = "csukuangfj/vits-vctk" -> "_get_vits_vctk"
          [] n = "csukuangfj/vits-ljs" -> "_get_vits_ljs"
          [] n = "csukuangfj/vits-zh-aishell3" -> "_get_vits_zh_aishell3"]

\* the ordered classification of spec.md 4.2 for a given vendor marker: the
\* tag is dropped and the rest classified; the first rule that matches wins
classify_by(marker, repo_id) ==
    LET rest == str_split(repo_id, "|")[1]
    IN  IF str_in(marker, rest) THEN "_get_vits_hf"
        ELSE IF PiperFamily(rest) THEN "_get_vits_piper"
        ELSE IF str_in("vits-mms", rest) THEN "_get_vits_mms"
        ELSE IF rest \in DOMAIN LegacyNames THEN LegacyNames[rest]
        ELSE "Unsupported"

\* the vendor marker as a part of the name between hyphens
classify(repo_id) == classify_by("-hf-", repo_id)

\* the function that get_pretrained_model called for the request of thread t
Assigned(t) == th[t].stack[2]

\* the exceptions of a builder that refuses an identifier
Refusals == {"AssertionError", "ValueError", "IndexError"}

\* no call for the identifier of thread t has ended in a builder's refusal
\* (an exception before any engine was returned), and none is about to
NotRefused(t) ==
    /\ (res[t].kind = "raised" /\ res[t].engine = 0 /\ ~InNoTable(res[t].key[1]))
           => res[t].err \notin Refusals
    /\ (th[t].pc = "body" /\ last(th[t].stack) \in Builders)
           => builder_check(last(th[t].stack), th[t].repo_id) = "ok"

\* C18: for every identifier of the tables, the function that
\* get_pretrained_model calls is the one the ordered classification gives
\* when the vendor marker is the name part "-hf-" (tag dropped first, then
\* vendor marker, family, "vits-mms", exact legacy name), and no builder
\* refuses the identifier by its assertion or its Unsupported branch.
C18_TablesMatchClassifier ==
    \A t \in Threads :
        /\ (~InNoTable(th[t].repo_id) /\ Len(th[t].stack) >= 2)
               => Assigned(t) = classify(th[t].repo_id)
        /\ NotRefused(t)

C18_Witness ==
    \E t \in Threads :
        /\ th[t].repo_id = "csukuangfj/vits-piper-en_US-hfc_male-medium"
        /\ th[t].pc = "get_file"
        /\ Assigned(t) = "_get_vits_piper"
        /\ classify(th[t].repo_id) = "_get_vits_piper"
        /\ classify_by("hf", th[t].repo_id) = "_get_vits_hf"

\* C18 with the vendor marker read as the substring "hf"
C18_SubstringMarker ==
    \A t \in Threads :
        (~InNoTable(th[t].repo_id) /\ Len(th[t].stack) >= 2)
            => Assigned(t) = classify_by("hf", th[t].repo_id)

\* the length_scale of engine e
ScaleOf(e) == engines[e].config.model.vits.length_scale

\* engine e was built in a construction for key k and runs at 1 / speed of k
BuiltFor(e, k) == engines[e].key = k /\ IsInverse(ScaleOf(e), k[2])

\* C19: an engine that get_pretrained_model returns, and one that a cache
\* holds under a key, was built in a construction for that identifier and
\* that speed and has length_scale = 1 / speed; so the engines that the
\* cache of get_pretrained_model holds for one identifier at two speeds are
\* two engines from two constructions.
C19_EnginePerSpeed ==
    /\ \A t \in Threads :
          th[t].pc \in {"generate", "write"}
              => BuiltFor(th[t].ret, <<th[t].repo_id, th[t].speed>>)
    /\ \A f \in Cached : \A n \in DOMAIN cache[f] :
          BuiltFor(cache[f][n].val, cache[f][n].key)
    /\ \A m, n \in DOMAIN Outer :
          (Outer[m].key[1] = Outer[n].key[1] /\ Outer[m].key[2] # Outer[n].key[2])
              => /\ Outer[m].val # Outer[n].val
                 /\ Len(engines) >= 2

C19_Witness ==
    \E t \in Threads :
        LET i == "csukuangfj/vits-piper-en_US-glados"
        IN  /\ th[t].repo_id = i /\ th[t].speed = 20
            /\ th[t].pc = "generate"
            /\ res[t].builds = 1
            /\ cache_has(Outer, <<i, 10>>)
            /\ cache_get(Outer, <<i, 10>>) # th[t].ret
            /\ ScaleOf(cache_get(Outer, <<i, 10>>)) = <<1, 1>>
            /\ ScaleOf(th[t].ret) = <<1, 2>>

\* the engine that the cache of function f holds for key k, 0 for none
Held(f, k) == IF cache_has(cache[f], k) THEN cache_get(cache[f], k) ELSE 0

\* C20: for an identifier with "vits-mms", what _get_vits_mms returns is the
\* engine that _get_vits_piper returned to it and keeps in its cache for the
\* same arguments, so the two caches never hold different engines for one
\* key; the construction calls get_file for model.onnx and tokens.txt of the
\* identifier's repo and for nothing else, and the configuration has an
\* empty data_dir.
C20_MmsDelegates ==
    \A t \in Threads :
        (str_in("vits-mms", th[t].repo_id) /\ ~InNoTable(th[t].repo_id))
            => LET k == <<th[t].repo_id, th[t].speed>>
               IN  /\ (th[t].pc = "return" /\ last(th[t].stack) = "_get_vits_mms")
                          => th[t].ret = Held("_get_vits_piper", k)
                   /\ (Held("_get_vits_mms", k) # 0 /\ Held("_get_vits_piper", k) # 0)
                          => Held("_get_vits_mms", k) = Held("_get_vits_piper", k)
                   /\ th[t].trace = SubSeq(<<<<th[t].repo_id, "model.onnx">>,
                                             <<th[t].repo_id, "tokens.txt">>>>,
                                           1, Len(th[t].trace))
                   /\ JustBuilt(t)
                          => /\ Len(th[t].trace) = 2
                             /\ th[t].stack = <<"get_pretrained_model", "_get_vits_mms",
                                                "_get_vits_piper">>
                             /\ Built(t).config.model.vits.data_dir = ""
                             /\ Built(t).config.model.vits.lexicon = ""

C20_Witness ==
    \E t \in Threads :
        /\ th[t].repo_id = "csukuangfj/vits-mms-nan"
        /\ th[t].pc = "return"
        /\ th[t].stack = <<"get_pretrained_model", "_get_vits_mms">>
        /\ th[t].builds = 1
        /\ th[t].ret # 0
        /\ th[t].ret = Held("_get_vits_piper", <<th[t].repo_id, th[t].speed>>)
        /\ engines[th[t].ret].config.model.vits.data_dir = ""
        /\ engines[th[t].ret].config.model.vits.model = "hub/csukuangfj/vits-mms-nan/model.onnx"

\* the builders that pass rule files or a dictionary directory
RuleBuilders == {"_get_vits_hf", "_get_vits_zh_aishell3"}

\* C21: the configuration a builder has assembled for an identifier of the
\* tables has a non-empty model path and tokens path, provider "cpu", 2
\* threads and debug on; its lexicon is empty exactly when the builder is
\* _get_vits_piper (which also serves _get_vits_mms); rule_fsts, rule_fars
\* and dict_dir are non-empty only when the builder is _get_vits_hf or
\* _get_vits_zh_aishell3.
C21_ConfigurationShape ==
    \A t \in Threads :
        (JustBuilt(t) /\ ~InNoTable(th[t].repo_id))
            => LET f == last(th[t].stack)
                   c == Built(t).config
               IN  /\ c.model.vits.model # ""
                   /\ c.model.vits.tokens # ""
                   /\ c.model.provider = "cpu"
                   /\ c.model.num_threads = 2
                   /\ c.model.debug = TRUE
                   /\ (c.model.vits.lexicon = "") <=> (f = "_get_vits_piper")
                   /\ c.rule_fsts # "" => f \in RuleBuilders
                   /\ c.rule_fars # "" => f \in RuleBuilders
                   /\ c.model.vits.dict_dir # "" => f \in RuleBuilders

C21_Witness ==
    \E t \in Threads :
        /\ JustBuilt(t)
        /\ th[t].repo_id = "csukuangfj/vits-zh-aishell3"
        /\ last(th[t].stack) = "_get_vits_zh_aishell3"
        /\ Built(t).config.rule_fars = "hub/csukuangfj/vits-zh-aishell3/rule.far"
        /\ Built(t).config.model.vits.lexicon = "hub/csukuangfj/vits-zh-aishell3/lexicon.txt"
        /\ Built(t).config.model.vits.dict_dir = ""
        /\ Built(t).config.model.provider = "cpu"

\* C22: the configuration _get_vits_hf has assembled has, for an identifier
\* without "vits-cantonese-hf-xiaomaiiwn", dict_dir = "/tmp/dict" and the
\* paths of phone.fst, date.fst, number.fst and new_heteronym.fst as
\* rule_fsts; for an identifier with it, an empty dict_dir and the path of
\* the one file rule.fst as rule_fsts; rule_fars is empty in both cases.
C22_DictionaryUnlessException ==
    \A t \in Threads :
        (JustBuilt(t) /\ last(th[t].stack) = "_get_vits_hf")
            => LET c == Built(t).config
                   hub == "hub/" \o str_split(th[t].repo_id, "|")[1] \o "/"
               IN  /\ c.rule_fars = ""
                   /\ IF str_in("vits-cantonese-hf-xiaomaiiwn", th[t].repo_id)
                      THEN /\ c.model.vits.dict_dir = ""
                           /\ c.rule_fsts = hub \o "rule.fst"
                           /\ Len(th[t].trace) = 4
                      ELSE /\ c.model.vits.dict_dir = "/tmp/dict"
                           /\ c.rule_fsts = hub \o "phone.fst," \o hub \o "date.fst,"
                                              \o hub \o "number.fst," \o hub
                                              \o "new_heteronym.fst"
                           /\ Len(th[t].trace) = 7

C22_Witness ==
    \E t \in Threads :
        /\ JustBuilt(t)
        /\ last(th[t].stack) = "_get_vits_hf"
        /\ th[t].repo_id = "csukuangfj/vits-cantonese-hf-xiaomaiiwn"
        /\ th[t].trace[4] = <<th[t].repo_id, "rule.fst">>
        /\ Len(th[t].trace) = 4
        /\ Built(t).config.model.vits.dict_dir = ""
        /\ Built(t).config.rule_fsts = "hub/csukuangfj/vits-cantonese-hf-xiaomaiiwn/rule.fst"
        /\ Built(t).config.rule_fars = ""

\* C23: a call of update_model_dropdown (a step that changes the interface
\* and is not the start of the program) changes no cache (nor the engines,
\* nor /tmp/dict); for a language that is a key of language_to_models it
\* sets the dropdown to that language's list with the first identifier of
\* the list selected, for any other text it raises ValueError and the
\* dropdown stays as it was.
C23_DropdownFollowsLanguage ==
    [][(app' # app /\ app'.pc = app.pc)
          => /\ UNCHANGED <<cache, engines, tmp_dict, downloads, th, res>>
             /\ IF \E i \in DOMAIN language_to_models :
                       language_to_models[i][1] = app'.language
                THEN /\ app'.err = ""
                     /\ \E i \in DOMAIN language_to_models :
                            /\ language_to_models[i][1] = app'.language
                            /\ language_to_models[i][2] = app'.choices
                     /\ app'.value = app'.choices[1]
                ELSE /\ app'.err = "ValueError"
                     /\ app'.choices = app.choices
                     /\ app'.value = app.value]_vars

C23_Witness ==
    /\ app.language = "Klingon"
    /\ app.err = "ValueError"
    /\ app.choices = dict_keys(german_models)
    /\ app.value = "csukuangfj/vits-coqui-de-css10"
    /\ Len(app.choices) > 1
    /\ cache_has(Outer, AppKeys[1])

\* C24: in a call of _get_vits_piper the first file fetched is model.onnx
\* for an identifier with "coqui" or "vits-mms"; else, for one with "piper",
\* <name>.onnx where "vits-piper-" and <name> make the second path segment;
\* else, for one with "mimic3", the same with "vits-mimic3-"; for any other
\* identifier the call raises ValueError and fetches nothing.  The
\* data_dir of the configuration is empty for an identifier with
\* "vits-coqui-uk-mai" or "vits-mms" and "/tmp/espeak-ng-data" for the rest.
C24_PiperFileName ==
    \A t \in Threads :
        LET id == th[t].repo_id
            seg == str_split(id, "/")[2]
            known == str_in("coqui", id) \/ str_in("vits-mms", id) \/ str_in("piper", id)
                        \/ str_in("mimic3", id)
        IN  /\ (th[t].stack # <<>> /\ last(th[t].stack) = "_get_vits_piper"
                    /\ Len(th[t].trace) >= 1)
                   => /\ th[t].trace[1][1] = id
                      /\ IF str_in("coqui", id) \/ str_in("vits-mms", id)
                         THEN th[t].trace[1][2] = "model.onnx"
                         ELSE IF str_in("piper", id)
                         THEN "vits-piper-" \o th[t].trace[1][2] = seg \o ".onnx"
                         ELSE IF str_in("mimic3", id)
                         THEN "vits-mimic3-" \o th[t].trace[1][2] = seg \o ".onnx"
                         ELSE FALSE
            /\ (th[t].stack # <<>> /\ last(th[t].stack) = "_get_vits_piper" /\ JustBuilt(t))
                   => Built(t).config.model.vits.data_dir =
                          (IF str_in("vits-coqui-uk-mai", id) \/ str_in("vits-mms", id)
                           THEN "" ELSE "/tmp/espeak-ng-data")
            /\ (th[t].callee = "_get_vits_piper" /\ th[t].pc \in {"get_file", "instantiate"})
                   => known
            /\ (res[t].kind = "raised" /\ res[t].key[1] \in PiperInputs /\ res[t].engine = 0)
                   => /\ res[t].err = "ValueError"
                      /\ res[t].fetches = 0
                      /\ ~(str_in("coqui", res[t].key[1]) \/ str_in("vits-mms", res[t].key[1])
                             \/ str_in("piper", res[t].key[1])
                             \/ str_in("mimic3", res[t].key[1]))

C24_Witness ==
    \E t \in Threads :
        LET k == <<"csukuangfj/vits-piper-coqui-voice", Speeds[1]>>
        IN  /\ res[t].kind = "raised" /\ res[t].err = "ValueError" /\ res[t].fetches = 0
            /\ res[t].key[1] = "csukuangfj/vits-vctk"
            /\ cache_has(cache["_get_vits_piper"], k)
            /\ engines[Held("_get_vits_piper", k)].config.model.vits.model =
                  "hub/csukuangfj/vits-piper-coqui-voice/model.onnx"
            /\ engines[Held("_get_vits_piper", k)].config.model.vits.data_dir =
                  "/tmp/espeak-ng-data"

\* C25: a request for an identifier that stands in a list of
\* language_to_models finds the identifier in a table of the chain of
\* get_pretrained_model, which calls the function this table gives for it;
\* no such request ends in the ValueError of an unsupported identifier.
C25_OfferedIsAccepted ==
    \A t \in Threads :
        /\ (th[t].repo_id # "" /\ LanguagesWith(th[t].repo_id) # {})
               => /\ TablesWith(th[t].repo_id) # {}
                  /\ Len(th[t].stack) >= 2
                        => \E i \in DOMAIN model_tables :
                              /\ dict_has(model_tables[i], th[t].repo_id)
                              /\ dict_get(model_tables[i], th[t].repo_id) = Assigned(t)
        /\ (res[t].kind = "raised" /\ res[t].engine = 0
               /\ LanguagesWith(res[t].key[1]) # {})
               => res[t].err # "ValueError"

C25_Witness ==
    /\ keys = OfferedKeys
    /\ \E t \in Threads :
          /\ th[t].repo_id = "csukuangfj/vits-mimic3-tn_ZA-google-nwu_low"
          /\ LanguagesWith(th[t].repo_id) # {}
          /\ th[t].pc = "get_file"
          /\ Assigned(t) = "_get_vits_piper"

\* C26: the dropdown always shows a list with at least one identifier and
\* has the first identifier of the list selected, at the construction of
\* the interface and after every event of the language radio; no call of
\* update_model_dropdown ends in an IndexError.
C26_FirstModelExists ==
    /\ app.err # "IndexError"
    /\ Len(app.choices) >= 1
    /\ app.value = app.choices[1]
    /\ \E i \in DOMAIN language_to_models :
          /\ language_to_models[i][2] = app.choices
          /\ app.err = "" => language_to_models[i][1] = app.language

C26_Witness ==
    /\ app.language = "Thai"
    /\ app.err = ""
    /\ app.choices = <<"csukuangfj/vits-mms-tha">>
    /\ app.value = "csukuangfj/vits-mms-tha"

\* C27: the start of the main program does not end before demo.launch(),
\* and once the interface of the main program is up the directory
\* /tmp/espeak-ng-data exists.
C27_ProvisionedBeforeLaunch ==
    /\ app.pc # "crashed"
    /\ app.pc = "serving" => app.espeak_ng_data

====
